---- MODULE Spec2Model ----
(***************************************************************************)
(* Game Boy core: the LR35902 interpreter of src/modules/cpu.ts (class CPU) *)
(* and the memory map of memory.ts (class Memory, MBC1 banking).            *)
(*                                                                          *)
(* One machine value `m` carries the fields of the CPU object, the Memory   *)
(* object it owns, and a log of the current step() call (bus accesses,      *)
(* ticks, handlers dispatched).  Every handler of the source is an operator *)
(* from machine to machine; step() is their composition.                    *)
(***************************************************************************)
EXTENDS Integers, Sequences, FiniteSets, TLC

(***************************************************************************)
(* Bounds of the model.                                                     *)
(***************************************************************************)
\* length of the byte pattern the loaded ROM image repeats
PatternLen == 2
\* step() is called only while fewer than MaxTicks machine cycles have elapsed
MaxTicks == 6
\* nested opcode_map calls the engine allows before it throws RangeError
MaxCallDepth == 3
\* size of the loaded ROM image in bytes (two 16 KiB banks)
RomSize == 32768
\* in the opcode specification step() is called only while fewer than
\* MaxOpTicks machine cycles have elapsed
MaxOpTicks == 3
\* direct calls a client makes on the Memory object in the memory specification
MaxAccesses == 5
\* in the program specification step() is called only while fewer than
\* MaxProgTicks machine cycles have elapsed
MaxProgTicks == 16

(***************************************************************************)
(* JavaScript integer operators on the values the code applies them to.    *)
(***************************************************************************)
RECURSIVE BitAnd(_, _)
\* a & b for non-negative a, b
BitAnd(a, b) ==
    IF a = 0 \/ b = 0 THEN 0
    ELSE (a % 2) * (b % 2) + 2 * BitAnd(a \div 2, b \div 2)

RECURSIVE BitOr(_, _)
\* a | b for non-negative a, b
BitOr(a, b) ==
    IF a = 0 THEN b
    ELSE IF b = 0 THEN a
    ELSE (IF a % 2 = 1 \/ b % 2 = 1 THEN 1 ELSE 0) + 2 * BitOr(a \div 2, b \div 2)

RECURSIVE BitXor(_, _)
\* a ^ b for non-negative a, b
BitXor(a, b) ==
    IF a = 0 THEN b
    ELSE IF b = 0 THEN a
    ELSE (IF a % 2 = b % 2 THEN 0 ELSE 1) + 2 * BitXor(a \div 2, b \div 2)

\* x & (2^k - 1) for any 32-bit x, two's complement for negative x
Low(x, mask) == x % (mask + 1)

\* x >> k (arithmetic shift) as floor division by 2^k
Shr(x, pow) == x \div pow

(***************************************************************************)
(* Constants of cpu.ts.                                                     *)
(***************************************************************************)
Z_true == 128
N_true == 64
H_true == 32
C_true == 16
F_mask == BitOr(BitOr(Z_true, N_true), BitOr(H_true, C_true))

flag_mask == [Z |-> Z_true, N |-> N_true, H |-> H_true, C |-> C_true]

byte_to_target == <<"B", "C", "D", "E", "H", "L", "(HL)", "A">>

\* byte_to_target[i] of the 0-based source array
Target(i) == byte_to_target[i + 1]

Registers == {"A", "F", "B", "C", "D", "E", "H", "L", "PC", "SP"}

\* enum Interrupts: VBlank, STAT, Timer, Serial, Joypad
Interrupts == {1, 2, 4, 8, 16}

(***************************************************************************)
(* Memory (memory.ts).  A JavaScript array is a function on the indices     *)
(* that have been assigned; any other index reads as undefined.             *)
(***************************************************************************)
BootRom == <<
    49, 254, 255, 175, 33, 255, 159, 50, 203, 124, 32, 251, 33, 38, 255, 14,
    17, 62, 128, 50, 226, 12, 62, 243, 226, 50, 62, 119, 119, 62, 252, 224,
    71, 17, 4, 1, 33, 16, 128, 26, 205, 149, 0, 205, 150, 0, 19, 123,
    254, 52, 32, 243, 17, 216, 0, 6, 8, 26, 19, 34, 35, 5, 32, 249,
    62, 25, 234, 16, 153, 33, 47, 153, 14, 12, 61, 40, 8, 50, 13, 32,
    249, 46, 15, 24, 243, 103, 62, 100, 87, 224, 66, 62, 145, 224, 64, 4,
    30, 2, 14, 12, 240, 68, 254, 144, 32, 250, 13, 32, 247, 29, 32, 242,
    14, 19, 36, 124, 30, 131, 254, 98, 40, 6, 30, 193, 254, 100, 32, 6,
    123, 226, 12, 62, 135, 226, 240, 66, 144, 224, 66, 21, 32, 210, 5, 32,
    79, 22, 32, 24, 203, 79, 6, 4, 197, 203, 17, 23, 193, 203, 17, 23,
    5, 32, 245, 34, 35, 34, 35, 201, 206, 237, 102, 102, 204, 13, 0, 11,
    3, 115, 0, 131, 0, 12, 0, 13, 0, 8, 17, 31, 136, 137, 0, 14,
    220, 204, 110, 230, 221, 221, 217, 153, 187, 187, 103, 99, 110, 14, 236, 204,
    221, 220, 153, 159, 187, 185, 51, 62, 60, 66, 185, 165, 185, 165, 66, 60,
    33, 4, 1, 17, 168, 0, 26, 19, 190, 32, 254, 35, 125, 254, 52, 32,
    245, 6, 25, 120, 134, 35, 5, 32, 251, 134, 32, 254, 62, 1, 224, 80 >>

\* the undefined of an array read, which `value || 0` turns into 0
Undefined == 0

\* arr[i] of a sparse array
ArrayGet(arr, i) == IF i \in DOMAIN arr THEN arr[i] ELSE Undefined

\* arr[i] = v
ArraySet(arr, i, v) == (i :> v) @@ arr

\* externalRom[i]: the loaded image repeats the pattern over RomSize bytes
RomGet(externalRom, i) ==
    IF i >= 0 /\ i < RomSize
    THEN externalRom[(i % Len(externalRom)) + 1]
    ELSE Undefined

\* new Memory()
MemoryNew(image) ==
    [ hasBoot |-> FALSE,
      workRam |-> <<>>,
      videoRam |-> <<>>,
      externalRom |-> image,
      externalRomBank |-> 1,
      externalRam |-> <<>>,
      externalRamBank |-> 0,
      externalRamEnabled |-> FALSE,
      highRam |-> <<>>,
      IE |-> 0,
      IF_ |-> 0,
      mbcMode |-> "ROM" ]

\* read taking the echo range as an extension of work RAM, not as its alias
read_echoOwn(mem, addr) ==
    LET address == Low(addr, 65535)
        value ==
            IF address < 16384 THEN
                IF mem.hasBoot /\ address < 256
                THEN BootRom[address + 1]
                ELSE RomGet(mem.externalRom, address)
            ELSE IF address < 32768 THEN
                RomGet(mem.externalRom, address - 32768 + 32768 * mem.externalRomBank)
            ELSE IF address < 40960 THEN ArrayGet(mem.videoRam, address - 32768)
            ELSE IF address < 49152 THEN
                IF mem.externalRamEnabled
                THEN ArrayGet(mem.externalRam, address - 40960 + 8192 * mem.externalRamBank)
                ELSE 255
            ELSE IF address < 57344 THEN ArrayGet(mem.workRam, address - 49152)
            ELSE IF address < 65024 THEN ArrayGet(mem.workRam, address - 49152)
            ELSE IF address < 65184 THEN ArrayGet(mem.videoRam, address - 65024)
            ELSE IF address < 65280 THEN 0
            ELSE IF address < 65408 THEN
                IF address = 65295 THEN BitAnd(mem.IF_, 31) ELSE Undefined
            ELSE IF address < 65535 THEN ArrayGet(mem.highRam, address - 65408)
            ELSE BitAnd(mem.IE, 31)
    IN  Low(value, 255)

\* Memory.read(address)
read(mem, addr) ==
    LET address == Low(addr, 65535)
        value ==
            IF address < 16384 THEN
                IF mem.hasBoot /\ address < 256
                THEN BootRom[address + 1]
                ELSE RomGet(mem.externalRom, address)
            ELSE IF address < 32768 THEN
                RomGet(mem.externalRom, address - 32768 + 32768 * mem.externalRomBank)
            ELSE IF address < 40960 THEN ArrayGet(mem.videoRam, address - 32768)
            ELSE IF address < 49152 THEN
                IF mem.externalRamEnabled
                THEN ArrayGet(mem.externalRam, address - 40960 + 8192 * mem.externalRamBank)
                ELSE 255
            ELSE IF address < 57344 THEN ArrayGet(mem.workRam, address - 49152)
            ELSE IF address < 65024 THEN ArrayGet(mem.workRam, address - 57344)
            ELSE IF address < 65184 THEN ArrayGet(mem.videoRam, address - 65024)
            ELSE IF address < 65280 THEN 0
            ELSE IF address < 65408 THEN
                IF address = 65295 THEN BitAnd(mem.IF_, 31) ELSE Undefined
            ELSE IF address < 65535 THEN ArrayGet(mem.highRam, address - 65408)
            ELSE BitAnd(mem.IE, 31)
    IN  Low(value, 255)

\* write storing into external RAM whether or not the RAM is enabled
write_ramUngated(mem, addr, val) ==
    LET address == Low(addr, 65535)
        value == Low(val, 255)
    IN  IF address < 8192 THEN
            [mem EXCEPT !.externalRamEnabled = (BitAnd(value, 15) = 10)]
        ELSE IF address < 16384 THEN
            LET b0 == BitAnd(value, 31)
                bank == IF b0 = 0 THEN 1 ELSE b0
            IN  \* `a & 0b1100000 + bank` parses as a & (0b1100000 + bank)
                [mem EXCEPT !.externalRomBank = BitAnd(@, 96 + bank)]
        ELSE IF address < 24576 THEN
            LET bank == BitAnd(value, 3)
            IN  IF mem.mbcMode = "ROM" THEN
                    \* `(bank << 5) + b & 0b11111` parses as ((bank << 5) + b) & 0b11111
                    [mem EXCEPT !.externalRomBank = BitAnd(bank * 32 + @, 31)]
                ELSE IF mem.mbcMode = "RAM" THEN
                    [mem EXCEPT !.externalRamBank = bank]
                ELSE mem
        ELSE IF address < 32768 THEN
            [mem EXCEPT !.mbcMode = IF BitAnd(value, 1) = 1 THEN "RAM" ELSE "ROM"]
        ELSE IF address < 40960 THEN
            [mem EXCEPT !.videoRam = ArraySet(@, address - 32768, value)]
        ELSE IF address < 49152 THEN
            [mem EXCEPT !.externalRam =
                ArraySet(@, address - 40960 + 8192 * mem.externalRamBank, value)]
        ELSE IF address < 57344 THEN
            [mem EXCEPT !.workRam = ArraySet(@, address - 49152, value)]
        ELSE IF address < 65024 THEN
            [mem EXCEPT !.workRam = ArraySet(@, address - 57344, value)]
        ELSE IF address < 65184 THEN
            [mem EXCEPT !.videoRam = ArraySet(@, address - 65024, value)]
        ELSE IF address < 65280 THEN mem
        ELSE IF address < 65408 THEN
            IF address = 65295 THEN [mem EXCEPT !.IF_ = value] ELSE mem
        ELSE IF address < 65535 THEN
            [mem EXCEPT !.highRam = ArraySet(@, address - 65408, value)]
        ELSE [mem EXCEPT !.IE = value]

\* Memory.write(address, value)
write(mem, addr, val) ==
    LET address == Low(addr, 65535)
        value == Low(val, 255)
    IN  IF address < 8192 THEN
            [mem EXCEPT !.externalRamEnabled = (BitAnd(value, 15) = 10)]
        ELSE IF address < 16384 THEN
            LET b0 == BitAnd(value, 31)
                bank == IF b0 = 0 THEN 1 ELSE b0
            IN  \* `a & 0b1100000 + bank` parses as a & (0b1100000 + bank)
                [mem EXCEPT !.externalRomBank = BitAnd(@, 96 + bank)]
        ELSE IF address < 24576 THEN
            LET bank == BitAnd(value, 3)
            IN  IF mem.mbcMode = "ROM" THEN
                    \* `(bank << 5) + b & 0b11111` parses as ((bank << 5) + b) & 0b11111
                    [mem EXCEPT !.externalRomBank = BitAnd(bank * 32 + @, 31)]
                ELSE IF mem.mbcMode = "RAM" THEN
                    [mem EXCEPT !.externalRamBank = bank]
                ELSE mem
        ELSE IF address < 32768 THEN
            [mem EXCEPT !.mbcMode = IF BitAnd(value, 1) = 1 THEN "RAM" ELSE "ROM"]
        ELSE IF address < 40960 THEN
            [mem EXCEPT !.videoRam = ArraySet(@, address - 32768, value)]
        ELSE IF address < 49152 THEN
            IF mem.externalRamEnabled
            THEN [mem EXCEPT !.externalRam =
                      ArraySet(@, address - 40960 + 8192 * mem.externalRamBank, value)]
            ELSE mem
        ELSE IF address < 57344 THEN
            [mem EXCEPT !.workRam = ArraySet(@, address - 49152, value)]
        ELSE IF address < 65024 THEN
            [mem EXCEPT !.workRam = ArraySet(@, address - 57344, value)]
        ELSE IF address < 65184 THEN
            [mem EXCEPT !.videoRam = ArraySet(@, address - 65024, value)]
        ELSE IF address < 65280 THEN mem
        ELSE IF address < 65408 THEN
            IF address = 65295 THEN [mem EXCEPT !.IF_ = value] ELSE mem
        ELSE IF address < 65535 THEN
            [mem EXCEPT !.highRam = ArraySet(@, address - 65408, value)]
        ELSE [mem EXCEPT !.IE = value]

(***************************************************************************)
(* CPU (cpu.ts).  m.bus and m.calls log the current step() call: the bus    *)
(* accesses and ticks in program order, and the opcodes handed to           *)
(* opcode_map.  m.stepped lists the peripherals whose step() the call has   *)
(* invoked, in order.  m.overflow records that step() ended by exhausting   *)
(* the call stack instead of returning.                                     *)
(***************************************************************************)
\* new CPU(), with the ROM image the embedder loads
CPUNew(image) ==
    [ registers |-> [r \in Registers |-> 0],
      t_clock |-> 0,
      enable_ime |-> FALSE,
      ime |-> FALSE,
      halted |-> FALSE,
      stopped |-> FALSE,
      IE |-> 0,
      IF_ |-> 0,
      memory |-> MemoryNew(image),
      bus |-> <<>>,
      calls |-> <<>>,
      stepped |-> <<>>,
      path |-> "new",
      overflow |-> FALSE ]

\* this.registers[r] = v
SetReg(m, r, v) == [m EXCEPT !.registers[r] = v]

\* (this.registers.H << 8) + this.registers.L
HL(m) == m.registers.H * 256 + m.registers.L

\* this.memory.read(addr), logged
MemRead(m, addr) == read(m.memory, addr)

\* the machine after a this.memory.read
AfterRead(m) == [m EXCEPT !.bus = Append(@, "read")]

\* this.memory.write(addr, value), logged
MemWrite(m, addr, value) ==
    [m EXCEPT !.memory = write(@, addr, value), !.bus = Append(@, "write")]

\* stepTimer with serial.step() called before sound.step()
stepTimer_serialFirst(m) ==
    [m EXCEPT !.t_clock = @ + 4,
              !.bus = Append(@, "tick"),
              !.stepped = @ \o <<"timer", "display", "serial", "sound", "joypad">>]

\* stepTimer: the peripherals' step() bodies are collaborators outside the
\* source; their interrupt requests are the action RequestInterrupt
stepTimer(m) ==
    [m EXCEPT !.t_clock = @ + 4,
              !.bus = Append(@, "tick"),
              !.stepped = @ \o <<"timer", "display", "sound", "serial", "joypad">>]

inc_8(m, r) == SetReg(m, r, Low(m.registers[r] + 1, 255))

dec_8(m, r) == SetReg(m, r, Low(m.registers[r] - 1, 255))

inc_16(m, r) == SetReg(m, r, Low(m.registers[r] + 1, 65535))

dec_16(m, r) == SetReg(m, r, Low(m.registers[r] - 1, 65535))

\* read_inc_pc: the byte read and the machine afterwards
read_inc_pc(m) ==
    [ value |-> MemRead(m, m.registers.PC),
      m |-> stepTimer(inc_16(AfterRead(m), "PC")) ]

push_sp(m, value) ==
    LET m1 == dec_16(m, "SP")
    IN  stepTimer(MemWrite(m1, m1.registers.SP, value))

\* pop_sp without the stepTimer call after the read
pop_sp_noTick(m) ==
    [ value |-> MemRead(m, m.registers.SP),
      m |-> inc_16(AfterRead(m), "SP") ]

\* pop_sp: the byte read and the machine afterwards
pop_sp(m) ==
    [ value |-> MemRead(m, m.registers.SP),
      m |-> stepTimer(inc_16(AfterRead(m), "SP")) ]

inc_wrap(m, registerH, registerL) ==
    LET m1 == inc_8(m, registerL)
    IN  IF m1.registers[registerL] = 0 THEN inc_8(m1, registerH) ELSE m1

dec_wrap(m, registerH, registerL) ==
    LET m1 == dec_8(m, registerL)
    IN  IF m1.registers[registerL] = 255 THEN dec_8(m1, registerH) ELSE m1

get_flag(m, flag) ==
    IF flag = "IME" THEN m.ime
    ELSE BitAnd(m.registers.F, flag_mask[flag]) = flag_mask[flag]

set_flag(m, flag, value) ==
    IF flag = "IME" THEN [m EXCEPT !.ime = value]
    ELSE IF value
         THEN SetReg(m, "F", BitOr(m.registers.F, flag_mask[flag]))
         ELSE SetReg(m, "F", BitAnd(m.registers.F, BitXor(255, flag_mask[flag])))

set_flag_z(m, a) == set_flag(m, "Z", a = 0)

\* (a & mask) + (b & mask) + (c ? 1 : 0) > mask
calc_flag(mask, a, b, c) == Low(a, mask) + Low(b, mask) + (IF c THEN 1 ELSE 0) > mask

set_flag_h_8(m, a, b, c) == set_flag(m, "H", calc_flag(15, a, b, c))

set_flag_c_8(m, a, b, c) == set_flag(m, "C", calc_flag(255, a, b, c))

set_flag_h_16(m, a, b, c) == set_flag(m, "H", calc_flag(4095, a, b, c))

set_flag_c_16(m, a, b, c) == set_flag(m, "C", calc_flag(65535, a, b, c))

\* read_target: the value read and the machine afterwards
read_target(m, target) ==
    IF target = "(HL)"
    THEN [value |-> MemRead(m, HL(m)), m |-> stepTimer(AfterRead(m))]
    ELSE [value |-> m.registers[target], m |-> m]

\* write_target storing the popped byte into F unmasked
write_target_nomask(m, target, value) ==
    IF target = "(HL)" THEN stepTimer(MemWrite(m, HL(m), value))
    ELSE SetReg(m, target, value)

write_target(m, target, value) ==
    IF target = "(HL)" THEN stepTimer(MemWrite(m, HL(m), value))
    ELSE IF target = "F" THEN SetReg(m, "F", BitAnd(value, F_mask))
    ELSE SetReg(m, target, value)

\* (value & 0x7F) - (value & 0x80)
Signed(value) == BitAnd(value, 127) - BitAnd(value, 128)

\* an invalid opcode treated as a two-byte instruction
IDK_skipOperand(m, opcode) == SetReg(m, "PC", m.registers.PC + 1)

IDK(m, opcode) == m

NOP(m, opcode) == m

STOP(m, opcode) == [m EXCEPT !.stopped = TRUE]

DI(m, opcode) == [m EXCEPT !.ime = FALSE]

\* EI enabling IME at once instead of arming the delay
EI_immediate(m, opcode) == [m EXCEPT !.ime = TRUE]

EI(m, opcode) == [m EXCEPT !.enable_ime = TRUE]

\* the register pair an opcode row of LD (xx),A / LD A,(xx) addresses through
PairAddr(m, row) ==
    IF row = 0 THEN m.registers.B * 256 + m.registers.C
    ELSE IF row = 16 THEN m.registers.D * 256 + m.registers.E
    ELSE IF row = 32 \/ row = 48 THEN HL(m)
    ELSE 0

LD(m, opcode) ==
    LET row == BitAnd(opcode, 240)
        col == BitAnd(opcode, 15)
    IN  IF opcode < 64 THEN
            IF col = 1 THEN \* LD xx,d16
                LET l == read_inc_pc(m)
                    h == read_inc_pc(l.m)
                    low == l.value
                    high == h.value
                IN  IF row = 0 THEN SetReg(SetReg(h.m, "B", high), "C", low)
                    ELSE IF row = 16 THEN SetReg(SetReg(h.m, "D", high), "E", low)
                    ELSE IF row = 32 THEN SetReg(SetReg(h.m, "H", high), "L", low)
                    ELSE IF row = 48 THEN SetReg(h.m, "SP", high * 256 + low)
                    ELSE h.m
            ELSE IF col = 2 THEN \* LD (xx),A
                LET m1 == stepTimer(MemWrite(m, PairAddr(m, row), m.registers.A))
                IN  IF opcode = 34 THEN inc_wrap(m1, "H", "L")
                    ELSE IF opcode = 50 THEN dec_wrap(m1, "H", "L")
                    ELSE m1
            ELSE IF col = 6 \/ col = 14 THEN \* LD x,d8
                LET v == read_inc_pc(m)
                    target == Target(Shr(opcode, 8))
                IN  IF target = "(HL)"
                    THEN stepTimer(MemWrite(v.m, HL(v.m), v.value))
                    ELSE SetReg(v.m, target, v.value)
            ELSE IF col = 8 THEN \* LD (a16),SP
                LET l == read_inc_pc(m)
                    h == read_inc_pc(l.m)
                    addr == h.value * 256 + l.value
                    m1 == stepTimer(MemWrite(h.m, addr, Low(h.m.registers.SP, 255)))
                IN  stepTimer(MemWrite(m1, addr + 1, Shr(m1.registers.SP, 256)))
            ELSE IF col = 10 THEN \* LD A,(xx)
                LET m1 == stepTimer(AfterRead(
                              SetReg(m, "A", MemRead(m, PairAddr(m, row)))))
                IN  IF opcode = 42 THEN inc_wrap(m1, "H", "L")
                    ELSE IF opcode = 58 THEN dec_wrap(m1, "H", "L")
                    ELSE m1
            ELSE m
        ELSE IF opcode < 128 THEN
            LET source == Target(BitAnd(opcode, 7))
                target == Target(Shr(opcode - 64, 8))
                s == IF source = "(HL)"
                     THEN [value |-> MemRead(m, HL(m)), m |-> stepTimer(AfterRead(m))]
                     ELSE [value |-> m.registers[source], m |-> m]
            IN  IF target = "(HL)"
                THEN stepTimer(MemWrite(s.m, HL(s.m), s.value))
                ELSE SetReg(s.m, target, s.value)
        ELSE IF opcode = 248 THEN \* LD HL,SP+r8
            LET v == read_inc_pc(m)
                signed == Signed(v.value)
                m1 == set_flag(v.m, "Z", FALSE)
                m2 == set_flag(m1, "N", FALSE)
                m3 == set_flag_h_8(m2, m2.registers.SP, signed, FALSE)
                m4 == set_flag_c_8(m3, m3.registers.SP, signed, FALSE)
                addr == m4.registers.SP + signed
                m5 == SetReg(m4, "H", Low(Shr(addr, 256), 255))
                m6 == SetReg(m5, "L", Low(addr, 255))
            IN  stepTimer(m6)
        ELSE IF opcode = 249 THEN \* LD SP,HL
            stepTimer(SetReg(m, "SP", Low(HL(m), 65535)))
        ELSE
            LET l == IF col = 0 \/ col = 10 THEN read_inc_pc(m)
                     ELSE IF col = 2 THEN [value |-> m.registers.C, m |-> m]
                     ELSE [value |-> 0, m |-> m]
                \* `else if (col = 0xA)` assigns, so it is taken whenever reached
                h == IF col = 0 \/ col = 2 THEN [value |-> 255, m |-> l.m]
                     ELSE read_inc_pc(l.m)
                addr == h.value * 256 + l.value
            IN  IF row = 224
                THEN stepTimer(MemWrite(h.m, addr, h.m.registers.A))
                ELSE stepTimer(AfterRead(SetReg(h.m, "A", MemRead(h.m, addr))))

\* ADD SP,r8 adding the operand byte without sign extension
ADD_unsignedOffset(m, opcode) ==
    IF opcode < 64 THEN
        LET hl == HL(m)
            value == IF opcode = 9 THEN m.registers.B * 256 + m.registers.C
                     ELSE IF opcode = 25 THEN m.registers.D * 256 + m.registers.E
                     ELSE IF opcode = 41 THEN HL(m)
                     ELSE m.registers.SP
            m1 == set_flag(m, "N", FALSE)
            m2 == set_flag_h_16(m1, hl, value, FALSE)
            m3 == set_flag_c_16(m2, hl, value, FALSE)
            hl2 == Low(hl + value, 65535)
        IN  stepTimer(SetReg(SetReg(m3, "H", Shr(hl2, 256)), "L", Low(hl2, 255)))
    ELSE IF opcode < 208 THEN
        LET carry == BitAnd(opcode, 15) >= 8 /\ get_flag(m, "C")
            v == IF opcode < 144
                 THEN read_target(m, Target((opcode - 128) % 8))
                 ELSE read_inc_pc(m)
            value == v.value
            m1 == set_flag(v.m, "N", FALSE)
            m2 == set_flag_h_8(m1, m1.registers.A, value, carry)
            m3 == set_flag_c_8(m2, m2.registers.A, value, carry)
            m4 == SetReg(m3, "A",
                         Low(m3.registers.A + value + (IF carry THEN 1 ELSE 0), 255))
        IN  set_flag_z(m4, m4.registers.A)
    ELSE \* ADD SP,r8
        LET v == read_inc_pc(m)
            signed == Signed(v.value)
            m1 == set_flag(v.m, "Z", FALSE)
            m2 == set_flag(m1, "N", FALSE)
            m3 == set_flag_h_8(m2, m2.registers.SP, signed, FALSE)
            m4 == set_flag_c_8(m3, m3.registers.SP, signed, FALSE)
            m5 == SetReg(m4, "SP", m4.registers.SP + v.value)
        IN  stepTimer(stepTimer(m5))

\* ADC adding the incoming carry to the flags only, not to A
ADD_carryDropped(m, opcode) ==
    IF opcode < 64 THEN
        LET hl == HL(m)
            value == IF opcode = 9 THEN m.registers.B * 256 + m.registers.C
                     ELSE IF opcode = 25 THEN m.registers.D * 256 + m.registers.E
                     ELSE IF opcode = 41 THEN HL(m)
                     ELSE m.registers.SP
            m1 == set_flag(m, "N", FALSE)
            m2 == set_flag_h_16(m1, hl, value, FALSE)
            m3 == set_flag_c_16(m2, hl, value, FALSE)
            hl2 == Low(hl + value, 65535)
        IN  stepTimer(SetReg(SetReg(m3, "H", Shr(hl2, 256)), "L", Low(hl2, 255)))
    ELSE IF opcode < 208 THEN
        LET carry == BitAnd(opcode, 15) >= 8 /\ get_flag(m, "C")
            v == IF opcode < 144
                 THEN read_target(m, Target((opcode - 128) % 8))
                 ELSE read_inc_pc(m)
            value == v.value
            m1 == set_flag(v.m, "N", FALSE)
            m2 == set_flag_h_8(m1, m1.registers.A, value, carry)
            m3 == set_flag_c_8(m2, m2.registers.A, value, carry)
            m4 == SetReg(m3, "A",
                         Low(m3.registers.A + value, 255))
        IN  set_flag_z(m4, m4.registers.A)
    ELSE \* ADD SP,r8
        LET v == read_inc_pc(m)
            signed == Signed(v.value)
            m1 == set_flag(v.m, "Z", FALSE)
            m2 == set_flag(m1, "N", FALSE)
            m3 == set_flag_h_8(m2, m2.registers.SP, signed, FALSE)
            m4 == set_flag_c_8(m3, m3.registers.SP, signed, FALSE)
            m5 == SetReg(m4, "SP", m4.registers.SP + signed)
        IN  stepTimer(stepTimer(m5))

ADD(m, opcode) ==
    IF opcode < 64 THEN
        LET hl == HL(m)
            value == IF opcode = 9 THEN m.registers.B * 256 + m.registers.C
                     ELSE IF opcode = 25 THEN m.registers.D * 256 + m.registers.E
                     ELSE IF opcode = 41 THEN HL(m)
                     ELSE m.registers.SP
            m1 == set_flag(m, "N", FALSE)
            m2 == set_flag_h_16(m1, hl, value, FALSE)
            m3 == set_flag_c_16(m2, hl, value, FALSE)
            hl2 == Low(hl + value, 65535)
        IN  stepTimer(SetReg(SetReg(m3, "H", Shr(hl2, 256)), "L", Low(hl2, 255)))
    ELSE IF opcode < 208 THEN
        LET carry == BitAnd(opcode, 15) >= 8 /\ get_flag(m, "C")
            v == IF opcode < 144
                 THEN read_target(m, Target((opcode - 128) % 8))
                 ELSE read_inc_pc(m)
            value == v.value
            m1 == set_flag(v.m, "N", FALSE)
            m2 == set_flag_h_8(m1, m1.registers.A, value, carry)
            m3 == set_flag_c_8(m2, m2.registers.A, value, carry)
            m4 == SetReg(m3, "A",
                         Low(m3.registers.A + value + (IF carry THEN 1 ELSE 0), 255))
        IN  set_flag_z(m4, m4.registers.A)
    ELSE \* ADD SP,r8
        LET v == read_inc_pc(m)
            signed == Signed(v.value)
            m1 == set_flag(v.m, "Z", FALSE)
            m2 == set_flag(m1, "N", FALSE)
            m3 == set_flag_h_8(m2, m2.registers.SP, signed, FALSE)
            m4 == set_flag_c_8(m3, m3.registers.SP, signed, FALSE)
            m5 == SetReg(m4, "SP", m4.registers.SP + signed)
        IN  stepTimer(stepTimer(m5))

\* SBC computing the half-borrow without the incoming carry
SUB_halfNoCarry(m, opcode) ==
    LET carry == IF BitAnd(opcode, 15) >= 8 /\ get_flag(m, "C") THEN 1 ELSE 0
        v == IF opcode < 160
             THEN read_target(m, Target((opcode - 128) % 8))
             ELSE read_inc_pc(m)
        value == v.value
        m1 == set_flag(v.m, "N", TRUE)
        m2 == set_flag(m1, "H", BitAnd(value, 15) > BitAnd(m1.registers.A, 15))
        m3 == set_flag(m2, "C", value + carry > m2.registers.A)
        m4 == SetReg(m3, "A", Low(m3.registers.A - value - carry, 255))
    IN  set_flag_z(m4, m4.registers.A)

SUB(m, opcode) ==
    LET carry == IF BitAnd(opcode, 15) >= 8 /\ get_flag(m, "C") THEN 1 ELSE 0
        v == IF opcode < 160
             THEN read_target(m, Target((opcode - 128) % 8))
             ELSE read_inc_pc(m)
        value == v.value
        m1 == set_flag(v.m, "N", TRUE)
        m2 == set_flag(m1, "H", BitAnd(value, 15) + carry > BitAnd(m1.registers.A, 15))
        m3 == set_flag(m2, "C", value + carry > m2.registers.A)
        m4 == SetReg(m3, "A", Low(m3.registers.A - value - carry, 255))
    IN  set_flag_z(m4, m4.registers.A)

AND(m, opcode) ==
    LET v == IF opcode < 176 THEN read_target(m, Target(opcode - 160))
             ELSE read_inc_pc(m)
        m1 == SetReg(v.m, "A", BitAnd(v.m.registers.A, v.value))
        m2 == set_flag_z(m1, m1.registers.A)
        m3 == set_flag(m2, "N", FALSE)
        m4 == set_flag(m3, "H", TRUE)
    IN  set_flag(m4, "C", FALSE)

XOR(m, opcode) ==
    LET v == IF opcode < 176 THEN read_target(m, Target(opcode - 168))
             ELSE read_inc_pc(m)
        m1 == SetReg(v.m, "A", BitXor(v.m.registers.A, v.value))
        m2 == set_flag_z(m1, m1.registers.A)
        m3 == set_flag(m2, "N", FALSE)
        m4 == set_flag(m3, "H", FALSE)
    IN  set_flag(m4, "C", FALSE)

OR(m, opcode) ==
    LET v == IF opcode < 192 THEN read_target(m, Target(opcode - 176))
             ELSE read_inc_pc(m)
        m1 == SetReg(v.m, "A", BitOr(v.m.registers.A, v.value))
        m2 == set_flag_z(m1, m1.registers.A)
        m3 == set_flag(m2, "N", FALSE)
        m4 == set_flag(m3, "H", FALSE)
    IN  set_flag(m4, "C", FALSE)

CP(m, opcode) ==
    LET v == IF opcode < 192 THEN read_target(m, Target(opcode - 184))
             ELSE read_inc_pc(m)
        value == v.value
        m1 == set_flag_z(v.m, v.m.registers.A - value)
        m2 == set_flag(m1, "N", TRUE)
        m3 == set_flag(m2, "H", BitAnd(value, 15) > BitAnd(m2.registers.A, 15))
    IN  set_flag(m3, "C", value > m3.registers.A)

INC(m, opcode) ==
    LET col == BitAnd(opcode, 15)
    IN  IF col = 3 THEN
            stepTimer(IF opcode = 3 THEN inc_wrap(m, "B", "C")
                      ELSE IF opcode = 19 THEN inc_wrap(m, "D", "E")
                      ELSE IF opcode = 35 THEN inc_wrap(m, "H", "L")
                      ELSE IF opcode = 51 THEN inc_16(m, "SP")
                      ELSE m)
        ELSE
            LET target == Target(Shr(opcode, 8))
                v == read_target(m, target)
                value == v.value
                m1 == set_flag(v.m, "Z", value = 255)
                m2 == set_flag(m1, "N", FALSE)
                m3 == set_flag(m2, "H", BitAnd(value, 15) = 15)
            IN  write_target(m3, target, Low(value + 1, 255))

DEC(m, opcode) ==
    LET col == BitAnd(opcode, 15)
    IN  IF col = 11 THEN
            stepTimer(IF opcode = 11 THEN dec_wrap(m, "B", "C")
                      ELSE IF opcode = 27 THEN dec_wrap(m, "D", "E")
                      ELSE IF opcode = 43 THEN dec_wrap(m, "H", "L")
                      ELSE IF opcode = 59 THEN dec_16(m, "SP")
                      ELSE m)
        ELSE
            LET target == Target(Shr(opcode, 8))
                v == read_target(m, target)
                value == v.value
                m1 == set_flag(v.m, "Z", value = 1)
                m2 == set_flag(m1, "N", TRUE)
                m3 == set_flag(m2, "H", BitAnd(value, 15) = 0)
            IN  write_target(m3, target, Low(value - 1, 255))

\* DAA adding 0x60 without setting the carry flag
DAA_carryKept(m, opcode) ==
    LET m3 ==
            IF ~get_flag(m, "N") THEN
                LET m1 == IF m.registers.A > 153 \/ get_flag(m, "C")
                          THEN SetReg(m, "A", Low(m.registers.A + 96, 255))
                          ELSE m
                IN  IF BitAnd(m1.registers.A, 15) > 9 \/ get_flag(m1, "H")
                    THEN SetReg(m1, "A", Low(m1.registers.A + 6, 255))
                    ELSE m1
            ELSE
                LET m1 == IF get_flag(m, "C")
                          THEN SetReg(m, "A", Low(m.registers.A - 96, 255))
                          ELSE m
                IN  IF get_flag(m1, "H")
                    THEN SetReg(m1, "A", Low(m1.registers.A - 6, 255))
                    ELSE m1
    IN  set_flag(set_flag_z(m3, m3.registers.A), "H", FALSE)

DAA(m, opcode) ==
    LET m3 ==
            IF ~get_flag(m, "N") THEN
                LET m1 == IF m.registers.A > 153 \/ get_flag(m, "C")
                          THEN set_flag(SetReg(m, "A", Low(m.registers.A + 96, 255)),
                                        "C", TRUE)
                          ELSE m
                IN  IF BitAnd(m1.registers.A, 15) > 9 \/ get_flag(m1, "H")
                    THEN SetReg(m1, "A", Low(m1.registers.A + 6, 255))
                    ELSE m1
            ELSE
                LET m1 == IF get_flag(m, "C")
                          THEN SetReg(m, "A", Low(m.registers.A - 96, 255))
                          ELSE m
                IN  IF get_flag(m1, "H")
                    THEN SetReg(m1, "A", Low(m1.registers.A - 6, 255))
                    ELSE m1
    IN  set_flag(set_flag_z(m3, m3.registers.A), "H", FALSE)

CPL(m, opcode) ==
    set_flag(set_flag(SetReg(m, "A", BitXor(m.registers.A, 255)), "N", TRUE), "H", TRUE)

CCF(m, opcode) ==
    LET m1 == set_flag(set_flag(m, "N", FALSE), "H", FALSE)
    IN  set_flag(m1, "C", ~get_flag(m1, "C"))

SCF(m, opcode) ==
    set_flag(set_flag(set_flag(m, "N", FALSE), "H", FALSE), "C", TRUE)

\* the common tail of the rotates on A: Z=0, N=0, H=0, C=c
RotFlagsA(m, c) ==
    set_flag(set_flag(set_flag(set_flag(m, "Z", FALSE), "N", FALSE), "H", FALSE),
             "C", c = 1)

RLCA(m, opcode) ==
    LET c == Shr(m.registers.A, 128)
    IN  RotFlagsA(SetReg(m, "A", BitAnd(m.registers.A, 127) * 2 + c), c)

RRCA(m, opcode) ==
    LET c == BitAnd(m.registers.A, 1)
    IN  RotFlagsA(SetReg(m, "A", Shr(BitAnd(m.registers.A, 254), 2) + c * 128), c)

RLA(m, opcode) ==
    LET c_old == IF get_flag(m, "C") THEN 1 ELSE 0
        c_new == Shr(m.registers.A, 128)
    IN  RotFlagsA(SetReg(m, "A", BitAnd(m.registers.A, 127) * 2 + c_old), c_new)

RRA(m, opcode) ==
    LET c_old == IF get_flag(m, "C") THEN 1 ELSE 0
        c_new == BitAnd(m.registers.A, 1)
    IN  RotFlagsA(SetReg(m, "A", Shr(BitAnd(m.registers.A, 254), 2) + c_old * 128),
                  c_new)

JP(m, opcode) ==
    LET jump == IF opcode = 194 THEN ~get_flag(m, "Z")
                ELSE IF opcode = 195 THEN TRUE
                ELSE IF opcode = 202 THEN get_flag(m, "Z")
                ELSE IF opcode = 210 THEN ~get_flag(m, "C")
                ELSE IF opcode = 218 THEN get_flag(m, "C")
                ELSE IF opcode = 233 THEN TRUE
                ELSE FALSE
        l == IF opcode = 233 THEN [value |-> m.registers.L, m |-> m]
             ELSE read_inc_pc(m)
        h == IF opcode = 233 THEN [value |-> m.registers.H, m |-> m]
             ELSE read_inc_pc(l.m)
    IN  IF jump
        THEN SetReg(IF opcode # 233 THEN stepTimer(h.m) ELSE h.m,
                    "PC", h.value * 256 + l.value)
        ELSE h.m

\* JR adding the signed offset without wrapping PC to 16 bits
JR_nomask(m, opcode) ==
    LET v == read_inc_pc(m)
        jump == IF opcode = 24 THEN TRUE
                ELSE IF opcode = 32 THEN ~get_flag(m, "Z")
                ELSE IF opcode = 40 THEN get_flag(m, "Z")
                ELSE IF opcode = 48 THEN ~get_flag(m, "C")
                ELSE IF opcode = 56 THEN get_flag(m, "C")
                ELSE FALSE
    IN  IF jump
        THEN stepTimer(SetReg(v.m, "PC", v.m.registers.PC + Signed(v.value)))
        ELSE v.m

\* JR without the internal-delay tick of the taken path
JR_untimed(m, opcode) ==
    LET v == read_inc_pc(m)
        jump == IF opcode = 24 THEN TRUE
                ELSE IF opcode = 32 THEN ~get_flag(m, "Z")
                ELSE IF opcode = 40 THEN get_flag(m, "Z")
                ELSE IF opcode = 48 THEN ~get_flag(m, "C")
                ELSE IF opcode = 56 THEN get_flag(m, "C")
                ELSE FALSE
    IN  IF jump
        THEN SetReg(v.m, "PC", Low(v.m.registers.PC + Signed(v.value), 65535))
        ELSE v.m

JR(m, opcode) ==
    LET v == read_inc_pc(m)
        jump == IF opcode = 24 THEN TRUE
                ELSE IF opcode = 32 THEN ~get_flag(m, "Z")
                ELSE IF opcode = 40 THEN get_flag(m, "Z")
                ELSE IF opcode = 48 THEN ~get_flag(m, "C")
                ELSE IF opcode = 56 THEN get_flag(m, "C")
                ELSE FALSE
    IN  IF jump
        THEN stepTimer(SetReg(v.m, "PC",
                              Low(v.m.registers.PC + Signed(v.value), 65535)))
        ELSE v.m

\* the register pair of a PUSH/POP opcode
StackPair(opcode) ==
    IF opcode \in {193, 197} THEN <<"B", "C">>
    ELSE IF opcode \in {209, 213} THEN <<"D", "E">>
    ELSE IF opcode \in {225, 229} THEN <<"H", "L">>
    ELSE <<"A", "F">>

POP(m, opcode) ==
    LET registerH == StackPair(opcode)[1]
        registerL == StackPair(opcode)[2]
        l == pop_sp(m)
        m1 == write_target(l.m, registerL, l.value)
        h == pop_sp(m1)
    IN  write_target(h.m, registerH, h.value)

\* PUSH storing the low register before the high register
PUSH_lowFirst(m, opcode) ==
    LET registerH == StackPair(opcode)[1]
        registerL == StackPair(opcode)[2]
        m1 == stepTimer(m)
        l == read_target(m1, registerL)
        m2 == push_sp(l.m, l.value)
        h == read_target(m2, registerH)
    IN  push_sp(h.m, h.value)

PUSH(m, opcode) ==
    LET registerH == StackPair(opcode)[1]
        registerL == StackPair(opcode)[2]
        m1 == stepTimer(m)
        h == read_target(m1, registerH)
        m2 == push_sp(h.m, h.value)
        l == read_target(m2, registerL)
    IN  push_sp(l.m, l.value)

\* CALL pushing the low byte of the return address before the high byte
CALL_lowFirst(m, opcode) ==
    LET l == read_inc_pc(m)
        h == read_inc_pc(l.m)
        jump == IF opcode = 196 THEN ~get_flag(m, "Z")
                ELSE IF opcode = 204 THEN get_flag(m, "Z")
                ELSE IF opcode = 205 THEN TRUE
                ELSE IF opcode = 212 THEN ~get_flag(m, "C")
                ELSE IF opcode = 220 THEN get_flag(m, "C")
                ELSE FALSE
    IN  IF jump THEN
            LET m1 == stepTimer(h.m)
                m2 == push_sp(m1, BitAnd(m1.registers.PC, 255))
                m3 == push_sp(m2, Shr(m2.registers.PC, 256))
            IN  SetReg(m3, "PC", h.value * 256 + l.value)
        ELSE h.m

CALL(m, opcode) ==
    LET l == read_inc_pc(m)
        h == read_inc_pc(l.m)
        jump == IF opcode = 196 THEN ~get_flag(m, "Z")
                ELSE IF opcode = 204 THEN get_flag(m, "Z")
                ELSE IF opcode = 205 THEN TRUE
                ELSE IF opcode = 212 THEN ~get_flag(m, "C")
                ELSE IF opcode = 220 THEN get_flag(m, "C")
                ELSE FALSE
    IN  IF jump THEN
            LET m1 == stepTimer(h.m)
                m2 == push_sp(m1, Shr(m1.registers.PC, 256))
                m3 == push_sp(m2, BitAnd(m2.registers.PC, 255))
            IN  SetReg(m3, "PC", h.value * 256 + l.value)
        ELSE h.m

\* RST_internal pushing the low byte of PC before the high byte
RST_internal_lowFirst(m, address) ==
    LET m1 == push_sp(m, BitAnd(m.registers.PC, 255))
        m2 == push_sp(m1, Shr(m1.registers.PC, 256))
    IN  SetReg(stepTimer(m2), "PC", address)

RST_internal(m, address) ==
    LET m1 == push_sp(m, Shr(m.registers.PC, 256))
        m2 == push_sp(m1, BitAnd(m1.registers.PC, 255))
    IN  SetReg(stepTimer(m2), "PC", address)

RST(m, opcode) == RST_internal(m, opcode - 199)

\* RET with RETI arming the one-instruction delay of EI instead of setting IME
RET_delayedIme(m, opcode) ==
    LET m1 == IF opcode \in {192, 200, 208, 216} THEN stepTimer(m)
              ELSE IF opcode = 217 THEN [m EXCEPT !.enable_ime = TRUE]
              ELSE m
        jump == IF opcode = 192 THEN ~get_flag(m, "Z")
                ELSE IF opcode = 200 THEN get_flag(m, "Z")
                ELSE IF opcode = 201 THEN TRUE
                ELSE IF opcode = 208 THEN ~get_flag(m, "C")
                ELSE IF opcode = 216 THEN get_flag(m, "C")
                ELSE IF opcode = 217 THEN TRUE
                ELSE FALSE
    IN  IF jump THEN
            LET l == pop_sp(m1)
                h == pop_sp(l.m)
            IN  SetReg(stepTimer(h.m), "PC", h.value * 256 + l.value)
        ELSE m1

RET(m, opcode) ==
    LET m1 == IF opcode \in {192, 200, 208, 216} THEN stepTimer(m)
              ELSE IF opcode = 217 THEN set_flag(m, "IME", TRUE)
              ELSE m
        jump == IF opcode = 192 THEN ~get_flag(m, "Z")
                ELSE IF opcode = 200 THEN get_flag(m, "Z")
                ELSE IF opcode = 201 THEN TRUE
                ELSE IF opcode = 208 THEN ~get_flag(m, "C")
                ELSE IF opcode = 216 THEN get_flag(m, "C")
                ELSE IF opcode = 217 THEN TRUE
                ELSE FALSE
    IN  IF jump THEN
            LET l == pop_sp(m1)
                h == pop_sp(l.m)
            IN  SetReg(stepTimer(h.m), "PC", h.value * 256 + l.value)
        ELSE m1

(***************************************************************************)
(* The bit-prefixed plane.                                                  *)
(***************************************************************************)
\* the common tail of the CB rotates and shifts: Z from value, N=0, H=0, C=c
RotFlags(m, value, c) ==
    set_flag(set_flag(set_flag(set_flag_z(m, value), "N", FALSE), "H", FALSE),
             "C", c = 1)

RLC(m, extended_opcode) ==
    LET target == Target(BitAnd(extended_opcode, 7))
        v == read_target(m, target)
        c == Shr(v.value, 128)
        value == BitAnd(v.value, 127) * 2 + c
    IN  RotFlags(write_target(v.m, target, value), value, c)

RRC(m, extended_opcode) ==
    LET target == Target(BitAnd(extended_opcode, 7))
        v == read_target(m, target)
        c == BitAnd(v.value, 1)
        value == Shr(BitAnd(v.value, 254), 2) + c * 128
    IN  RotFlags(write_target(v.m, target, value), value, c)

RL(m, extended_opcode) ==
    LET target == Target(BitAnd(extended_opcode, 7))
        v == read_target(m, target)
        c_old == IF get_flag(v.m, "C") THEN 1 ELSE 0
        c_new == Shr(v.value, 128)
        value == BitAnd(v.value, 127) * 2 + c_old
    IN  RotFlags(write_target(v.m, target, value), value, c_new)

RR(m, extended_opcode) ==
    LET target == Target(BitAnd(extended_opcode, 7))
        v == read_target(m, target)
        c_old == IF get_flag(v.m, "C") THEN 1 ELSE 0
        c_new == BitAnd(v.value, 1)
        value == Shr(BitAnd(v.value, 254), 2) + c_old * 128
    IN  RotFlags(write_target(v.m, target, value), value, c_new)

SLA(m, extended_opcode) ==
    LET target == Target(BitAnd(extended_opcode, 7))
        v == read_target(m, target)
        c == Shr(v.value, 128)
        value == BitAnd(v.value * 2, 255)
    IN  RotFlags(write_target(v.m, target, value), value, c)

SRA(m, extended_opcode) ==
    LET target == Target(BitAnd(extended_opcode, 7))
        v == read_target(m, target)
        c == BitAnd(v.value, 1)
        value == BitOr(BitAnd(v.value, 128), Shr(v.value, 2))
    IN  RotFlags(write_target(v.m, target, value), value, c)

SRL(m, extended_opcode) ==
    LET target == Target(BitAnd(extended_opcode, 7))
        v == read_target(m, target)
        c == BitAnd(v.value, 1)
        value == Shr(v.value, 2)
    IN  RotFlags(write_target(v.m, target, value), value, c)

SWAP(m, extended_opcode) ==
    LET target == Target(BitAnd(extended_opcode, 7))
        v == read_target(m, target)
        value == BitOr(BitAnd(v.value, 15) * 16, Shr(BitAnd(v.value, 240), 16))
    IN  RotFlags(write_target(v.m, target, value), value, 0)

\* 1 << bit
Bit(bit) == 2 ^ bit

\* BIT clearing the carry flag as the rotates and SWAP do
BIT_carryCleared(m, extended_opcode) ==
    LET bit == Shr(extended_opcode - 64, 8)
        bit_mask == Bit(bit)
        target == Target(BitAnd(extended_opcode, 7))
        v == read_target(m, target)
        m1 == set_flag_z(v.m, BitAnd(v.value, bit_mask))
    IN  set_flag(set_flag(set_flag(m1, "N", FALSE), "H", TRUE), "C", FALSE)

BIT(m, extended_opcode) ==
    LET bit == Shr(extended_opcode - 64, 8)
        bit_mask == Bit(bit)
        target == Target(BitAnd(extended_opcode, 7))
        v == read_target(m, target)
        m1 == set_flag_z(v.m, BitAnd(v.value, bit_mask))
    IN  set_flag(set_flag(m1, "N", FALSE), "H", TRUE)

RES(m, extended_opcode) ==
    LET bit == Shr(extended_opcode - 128, 8)
        bit_mask == BitXor(255, Bit(bit))
        target == Target(BitAnd(extended_opcode, 7))
        v == read_target(m, target)
    IN  write_target(v.m, target, BitAnd(v.value, bit_mask))

SET(m, extended_opcode) ==
    LET bit == Shr(extended_opcode - 192, 8)
        bit_mask == Bit(bit)
        target == Target(BitAnd(extended_opcode, 7))
        v == read_target(m, target)
    IN  write_target(v.m, target, BitOr(v.value, bit_mask))

\* cb_map[i](extended_opcode)
cb_map(m, i, extended_opcode) ==
    CASE i = 0 -> RLC(m, extended_opcode)
      [] i = 1 -> RRC(m, extended_opcode)
      [] i = 2 -> RL(m, extended_opcode)
      [] i = 3 -> RR(m, extended_opcode)
      [] i = 4 -> SLA(m, extended_opcode)
      [] i = 5 -> SRA(m, extended_opcode)
      [] i = 6 -> SWAP(m, extended_opcode)
      [] i = 7 -> SRL(m, extended_opcode)
      [] i \in 8..15 -> BIT(m, extended_opcode)
      [] i \in 16..23 -> RES(m, extended_opcode)
      [] OTHER -> SET(m, extended_opcode)

CB(m, opcode) ==
    LET x == read_inc_pc(m)
    IN  cb_map(x.m, Shr(x.value, 8), x.value)

(***************************************************************************)
(* The primary plane: opcode_map, HALT (which calls back into opcode_map),  *)
(* the interrupt service protocol and step().                               *)
(***************************************************************************)
\* the handler opcode_map[opcode] names
Handler(opcode) ==
    LET row == opcode \div 16
        col == opcode % 16
    IN  IF opcode < 64 THEN
            CASE opcode = 0 -> "NOP"
              [] opcode = 16 -> "STOP"
              [] opcode \in {24, 32, 40, 48, 56} -> "JR"
              [] opcode = 7 -> "RLCA"
              [] opcode = 15 -> "RRCA"
              [] opcode = 23 -> "RLA"
              [] opcode = 31 -> "RRA"
              [] opcode = 39 -> "DAA"
              [] opcode = 47 -> "CPL"
              [] opcode = 55 -> "SCF"
              [] opcode = 63 -> "CCF"
              [] col = 9 -> "ADD"
              [] col \in {3, 4, 12} -> "INC"
              [] col \in {5, 11, 13} -> "DEC"
              [] OTHER -> "LD"
        ELSE IF opcode < 128 THEN (IF opcode = 118 THEN "HALT" ELSE "LD")
        ELSE IF opcode < 144 THEN "ADD"
        ELSE IF opcode < 160 THEN "SUB"
        ELSE IF opcode < 168 THEN "AND"
        ELSE IF opcode < 176 THEN "XOR"
        ELSE IF opcode < 184 THEN "OR"
        ELSE IF opcode < 192 THEN "CP"
        ELSE
            CASE col \in {7, 15} -> "RST"
              [] opcode \in {192, 200, 201, 208, 216, 217} -> "RET"
              [] opcode \in {193, 209, 225, 241} -> "POP"
              [] opcode \in {197, 213, 229, 245} -> "PUSH"
              [] opcode \in {194, 195, 202, 210, 218, 233} -> "JP"
              [] opcode \in {196, 204, 205, 212, 220} -> "CALL"
              [] opcode = 203 -> "CB"
              [] opcode \in {198, 206, 232} -> "ADD"
              [] opcode \in {214, 222} -> "SUB"
              [] opcode = 230 -> "AND"
              [] opcode = 238 -> "XOR"
              [] opcode = 246 -> "OR"
              [] opcode = 254 -> "CP"
              [] opcode = 243 -> "DI"
              [] opcode = 251 -> "EI"
              [] opcode \in {224, 226, 234, 240, 242, 248, 249, 250} -> "LD"
              [] OTHER -> "IDK"

RECURSIVE opcode_map(_, _)

\* HALT fetching the byte after it with read_inc_pc on the halt-bug path
HALT_incPc(m, opcode) ==
    IF ~m.ime /\ BitAnd(m.IE, m.IF_) > 0 THEN
        LET f == read_inc_pc(m)
        IN  opcode_map(f.m, f.value)
    ELSE [m EXCEPT !.halted = TRUE]

\* HALT setting halted on the halt-bug path too
HALT_haltsOnBug(m, opcode) ==
    IF ~m.ime /\ BitAnd(m.IE, m.IF_) > 0 THEN
        LET next == MemRead(m, m.registers.PC)
        IN  opcode_map(stepTimer(AfterRead([m EXCEPT !.halted = TRUE])), next)
    ELSE [m EXCEPT !.halted = TRUE]

HALT(m, opcode) ==
    IF ~m.ime /\ BitAnd(m.IE, m.IF_) > 0 THEN
        \* weird halt bug... don't increment PC
        LET next == MemRead(m, m.registers.PC)
        IN  opcode_map(stepTimer(AfterRead(m)), next)
    ELSE [m EXCEPT !.halted = TRUE]

\* this.opcode_map[opcode](opcode); a call beyond MaxCallDepth nested calls
\* exhausts the call stack and step() throws instead of returning
opcode_map(m, opcode) ==
    IF Len(m.calls) >= MaxCallDepth THEN [m EXCEPT !.overflow = TRUE]
    ELSE
        LET m1 == [m EXCEPT !.calls = Append(@, opcode)]
            h == Handler(opcode)
        IN  CASE h = "NOP" -> NOP(m1, opcode)
              [] h = "LD" -> LD(m1, opcode)
              [] h = "INC" -> INC(m1, opcode)
              [] h = "DEC" -> DEC(m1, opcode)
              [] h = "ADD" -> ADD(m1, opcode)
              [] h = "SUB" -> SUB(m1, opcode)
              [] h = "AND" -> AND(m1, opcode)
              [] h = "XOR" -> XOR(m1, opcode)
              [] h = "OR" -> OR(m1, opcode)
              [] h = "CP" -> CP(m1, opcode)
              [] h = "RLCA" -> RLCA(m1, opcode)
              [] h = "RRCA" -> RRCA(m1, opcode)
              [] h = "RLA" -> RLA(m1, opcode)
              [] h = "RRA" -> RRA(m1, opcode)
              [] h = "DAA" -> DAA(m1, opcode)
              [] h = "CPL" -> CPL(m1, opcode)
              [] h = "SCF" -> SCF(m1, opcode)
              [] h = "CCF" -> CCF(m1, opcode)
              [] h = "JR" -> JR(m1, opcode)
              [] h = "JP" -> JP(m1, opcode)
              [] h = "CALL" -> CALL(m1, opcode)
              [] h = "RET" -> RET(m1, opcode)
              [] h = "RST" -> RST(m1, opcode)
              [] h = "POP" -> POP(m1, opcode)
              [] h = "PUSH" -> PUSH(m1, opcode)
              [] h = "CB" -> CB(m1, opcode)
              [] h = "STOP" -> STOP(m1, opcode)
              [] h = "HALT" -> HALT(m1, opcode)
              [] h = "DI" -> DI(m1, opcode)
              [] h = "EI" -> EI(m1, opcode)
              [] OTHER -> IDK(m1, opcode)

\* interrupt & -interrupt
LowestSetBit(interrupt) == BitAnd(interrupt, Low(-interrupt, 65535))

\* handleInterrupt leaving IME set
handleInterrupt_keepIme(m) ==
    LET m1 == stepTimer(m)
        interrupt == BitAnd(m1.IE, m1.IF_)
        lowestSetBit == LowestSetBit(interrupt)
        m2 == [m1 EXCEPT !.IF_ = BitAnd(@, Low(-lowestSetBit - 1, 65535))]
    IN  CASE lowestSetBit = 1 -> RST_internal(m2, 64)
          [] lowestSetBit = 2 -> RST_internal(m2, 72)
          [] lowestSetBit = 4 -> RST_internal(m2, 80)
          [] lowestSetBit = 8 -> RST_internal(m2, 88)
          [] lowestSetBit = 16 -> RST_internal(m2, 96)
          [] OTHER -> m2

handleInterrupt(m) ==
    LET m1 == stepTimer(m) \* IF is actually read twice
        interrupt == BitAnd(m1.IE, m1.IF_)
        lowestSetBit == LowestSetBit(interrupt)
        m2 == [m1 EXCEPT !.IF_ = BitAnd(@, Low(-lowestSetBit - 1, 65535)),
                         !.ime = FALSE]
    IN  CASE lowestSetBit = 1 -> RST_internal(m2, 64)
          [] lowestSetBit = 2 -> RST_internal(m2, 72)
          [] lowestSetBit = 4 -> RST_internal(m2, 80)
          [] lowestSetBit = 8 -> RST_internal(m2, 88)
          [] lowestSetBit = 16 -> RST_internal(m2, 96)
          [] OTHER -> m2

\* step() leaving the halted state whether or not a request is pending
step_wakeAlways(m) ==
    LET m0 == [m EXCEPT !.bus = <<>>, !.calls = <<>>, !.stepped = <<>>]
    IN  IF m0.stopped THEN [m0 EXCEPT !.path = "stopped"]
        ELSE
            LET m1 == [m0 EXCEPT !.halted = FALSE]
            IN  IF m1.ime /\ BitAnd(m1.IE, m1.IF_) # 0
                THEN handleInterrupt([m1 EXCEPT !.path = "interrupt"])
                ELSE
                    LET f == read_inc_pc([m1 EXCEPT !.path = "fetch"])
                        m2 == IF f.m.enable_ime
                              THEN [f.m EXCEPT !.ime = TRUE, !.enable_ime = FALSE]
                              ELSE f.m
                    IN  opcode_map(m2, f.value)

\* step() ticking once per call while stopped, as it does while halted
step_stoppedTicks(m) ==
    LET m0 == [m EXCEPT !.bus = <<>>, !.calls = <<>>, !.stepped = <<>>]
    IN  IF m0.stopped THEN stepTimer([m0 EXCEPT !.path = "stopped"])
        ELSE IF m0.halted /\ BitAnd(m0.IE, m0.IF_) = 0
        THEN stepTimer([m0 EXCEPT !.path = "halted"])
        ELSE
            LET m1 == [m0 EXCEPT !.halted = FALSE]
            IN  IF m1.ime /\ BitAnd(m1.IE, m1.IF_) # 0
                THEN handleInterrupt([m1 EXCEPT !.path = "interrupt"])
                ELSE
                    LET f == read_inc_pc([m1 EXCEPT !.path = "fetch"])
                        m2 == IF f.m.enable_ime
                              THEN [f.m EXCEPT !.ime = TRUE, !.enable_ime = FALSE]
                              ELSE f.m
                    IN  opcode_map(m2, f.value)

\* step(); m.path names the branch taken
step(m) ==
    LET m0 == [m EXCEPT !.bus = <<>>, !.calls = <<>>, !.stepped = <<>>]
    IN  IF m0.stopped THEN [m0 EXCEPT !.path = "stopped"]
        ELSE IF m0.halted /\ BitAnd(m0.IE, m0.IF_) = 0
        THEN stepTimer([m0 EXCEPT !.path = "halted"])
        ELSE
            LET m1 == [m0 EXCEPT !.halted = FALSE]
            IN  IF m1.ime /\ BitAnd(m1.IE, m1.IF_) # 0
                THEN handleInterrupt([m1 EXCEPT !.path = "interrupt"])
                ELSE
                    LET f == read_inc_pc([m1 EXCEPT !.path = "fetch"])
                        m2 == IF f.m.enable_ime
                              THEN [f.m EXCEPT !.ime = TRUE, !.enable_ime = FALSE]
                              ELSE f.m
                    IN  opcode_map(m2, f.value)

(***************************************************************************)
(* The system: one CPU with its Memory, the embedder calling step(), and    *)
(* the collaborators that are not part of the source.                       *)
(***************************************************************************)
\* cpu: the CPU object with its Memory; access: the last call a client of
\* the Memory object made on it directly
VARIABLES cpu, access

vars == <<cpu, access>>

\* no direct call has been made
NoAccess == [op |-> "none", address |-> 0, value |-> 0, seq |-> 0]

\* bytes the loaded ROM patterns are drawn from:
\* NOP, STOP, JR, DEC SP, INC A, HALT, RETI, ADD SP r8, POP AF, DI, PUSH AF, EI, RST 38
ProgramBytes == {0, 16, 24, 59, 60, 118, 217, 232, 241, 243, 245, 251, 255}

\* values the interrupt-enable register is given
EnableValues == {26, 31}

Init ==
    /\ \E image \in [1..PatternLen -> ProgramBytes] : cpu = CPUNew(image)
    /\ access = NoAccess

\* the embedder calls step()
Step ==
    /\ ~cpu.overflow
    /\ cpu.t_clock < 4 * MaxTicks
    /\ cpu' = step(cpu)
    /\ UNCHANGED access

\* a peripheral requests an interrupt by OR-ing its bit into IF
RequestInterrupt ==
    \E b \in Interrupts :
        /\ ~cpu.overflow
        /\ BitAnd(cpu.IF_, b) = 0
        /\ cpu' = [cpu EXCEPT !.IF_ = BitOr(@, b)]
        /\ UNCHANGED access

\* the interrupt-enable register of the CPU object is given a value
SetInterruptEnable ==
    \E e \in EnableValues :
        /\ ~cpu.overflow
        /\ cpu.IE # e
        /\ cpu' = [cpu EXCEPT !.IE = e]
        /\ UNCHANGED access

Next == Step \/ RequestInterrupt \/ SetInterruptEnable

Spec == Init /\ [][Next]_vars

(***************************************************************************)
(* The opcode specification: every opcode of the primary table, followed by *)
(* every operand byte (for 0xCB, every opcode of the CB table), is run from *)
(* a newly constructed CPU, with the V-Blank source as the one collaborator *)
(* that raises a request.                                                   *)
(***************************************************************************)
\* a byte
Bytes == 0..255

OpInit ==
    /\ \E opcode \in Bytes, operand \in Bytes : cpu = CPUNew(<<opcode, operand>>)
    /\ access = NoAccess

\* the embedder calls step()
OpStep ==
    /\ ~cpu.overflow
    /\ cpu.t_clock < 4 * MaxOpTicks
    /\ cpu' = step(cpu)
    /\ UNCHANGED access

\* the display requests the V-Blank interrupt
OpRequestVBlank ==
    /\ ~cpu.overflow
    /\ BitAnd(cpu.IF_, 1) = 0
    /\ cpu' = [cpu EXCEPT !.IF_ = BitOr(@, 1)]
    /\ UNCHANGED access

\* every source is enabled in the interrupt-enable register of the CPU object
OpEnableAll ==
    /\ ~cpu.overflow
    /\ cpu.IE # 31
    /\ cpu' = [cpu EXCEPT !.IE = 31]
    /\ UNCHANGED access

OpNext == OpStep \/ OpRequestVBlank \/ OpEnableAll

OpSpec == OpInit /\ [][OpNext]_vars

(***************************************************************************)
(* Vocabulary of the properties.                                            *)
(***************************************************************************)
\* the transition is a step() call that ticked (the collaborators' actions
\* change IE or IF only)
StepTaken == cpu'.t_clock # cpu.t_clock

\* IE & IF != 0 as the interrupt unit sees it
Pending(m) == BitAnd(m.IE, m.IF_) # 0

\* the lowest-numbered set bit of a non-zero byte
LowestPending(x) == CHOOSE b \in {1, 2, 4, 8, 16, 32, 64, 128} : x % (2 * b) = b

\* the vector of interrupt bit b: 0x40, 0x48, 0x50, 0x58, 0x60 for bits 0..4
VectorOf(b) == CHOOSE v \in {64, 72, 80, 88, 96} : 2 ^ ((v - 64) \div 8) = b

\* step() starts the service protocol: not stopped, IME true, IE & IF != 0
Services == StepTaken /\ ~cpu.stopped /\ cpu.ime /\ Pending(cpu)

\* C1: in every reachable state the low nibble of register F is zero
C1_FLowNibbleZero == cpu.registers.F % 16 = 0

\* POP AF has just loaded F from the stack byte 0xF1
C1_Witness == cpu.calls = <<241>> /\ cpu.registers.F = 240 /\ cpu.registers.A = 241

\* C2: in every reachable state PC is an integer in [0, 0x10000)
C2_PCRange == cpu.registers.PC \in 0..65535

\* a taken JR from address 0 with a negative offset has wrapped PC below 0x10000
C2_Witness == cpu.calls = <<24>> /\ cpu.registers.PC >= 65280

\* C3: in every reachable state SP is an integer in [0, 0x10000)
C3_SPRange == cpu.registers.SP \in 0..65535

\* C4: every step() call returns and dispatches at most one handler of the
\* primary opcode table
C4_OneInstruction == ~cpu.overflow /\ Len(cpu.calls) <= 1

\* C5: the IE and IF a program writes through FFFF and FF0F are the IE and IF
\* the interrupt unit tests: a step that changes either leaves both copies equal
C5_SharedRegisters ==
    [][StepTaken =>
          /\ (cpu'.memory.IE # cpu.memory.IE => cpu'.IE = cpu'.memory.IE)
          /\ (cpu'.memory.IF_ # cpu.memory.IF_ => cpu'.IF_ = cpu'.memory.IF_)]_vars

\* C6: when step() services an interrupt, at its return the serviced bit (the
\* lowest set bit of IE & IF) is clear in IF and IME is false
C6_ServiceClears ==
    [][Services =>
          /\ BitAnd(cpu'.IF_, LowestPending(BitAnd(cpu.IE, cpu.IF_))) = 0
          /\ ~cpu'.ime]_vars

\* an interrupt has been serviced while another request stays pending
C6_Witness == cpu.path = "interrupt" /\ ~cpu.ime /\ cpu.IF_ # 0

C8_EIDelay ==
    [][StepTaken =>
          /\ ( /\ ~cpu.ime /\ ~cpu.enable_ime
               /\ cpu'.path = "fetch" /\ cpu'.calls = <<251>>
               => ~cpu'.ime /\ cpu'.enable_ime )
          /\ ( cpu.enable_ime /\ ~cpu.ime
               => /\ cpu'.path = "fetch"
                  /\ Len(cpu'.calls) >= 1
                  /\ cpu'.ime = (cpu'.calls[1] # 243) )]_vars

\* EI at 0, NOP at 1: the NOP has been executed with a request pending the
\* whole time, and only now is IME true
C8_Witness ==
    /\ cpu.memory.externalRom = <<251, 0>>
    /\ cpu.registers.PC = 2
    /\ cpu.t_clock = 8
    /\ cpu.calls = <<0>>
    /\ cpu.ime
    /\ Pending(cpu)

\* C9: a step that starts halted with IE & IF = 0 ticks once and changes
\* nothing else; one that starts halted with IE & IF != 0 leaves the halted
\* state and services if IME is true, else fetches and clears no IF bit
C9_Halted ==
    [][StepTaken /\ cpu.halted =>
          IF ~Pending(cpu)
          THEN /\ cpu'.t_clock = cpu.t_clock + 4
               /\ cpu'.bus = <<"tick">>
               /\ cpu'.registers = cpu.registers
               /\ cpu'.ime = cpu.ime
               /\ cpu'.memory = cpu.memory
               /\ cpu'.halted
          ELSE /\ ~cpu'.halted
               /\ IF cpu.ime
                  THEN cpu'.path = "interrupt"
                  ELSE /\ cpu'.path = "fetch"
                       /\ Len(cpu'.calls) >= 1
                       /\ cpu'.IF_ = cpu.IF_]_vars

\* the CPU has spent a step halted and is still halted
C9_Witness == cpu.path = "halted" /\ cpu.halted /\ cpu.t_clock >= 8

\* C10: HALT executed with IME false and IE & IF != 0 does not halt and
\* executes the byte after it without incrementing PC for that fetch; in
\* every other case HALT sets halted
C10_HaltBug ==
    [][StepTaken /\ cpu'.path = "fetch" /\ cpu'.calls # <<>> /\ cpu'.calls[1] = 118 =>
          LET pc == cpu.registers.PC
              next == read(cpu.memory, pc + 1)
          IN  IF ~cpu.ime /\ ~cpu.enable_ime /\ Pending(cpu)
              THEN /\ ~cpu'.halted
                   /\ Len(cpu'.calls) >= 2
                   /\ cpu'.calls[2] = next
                   /\ (next \in {0, 60} => cpu'.registers.PC = (pc + 1) % 65536)
                   /\ (next = 232 =>
                          /\ cpu'.registers.PC = (pc + 2) % 65536
                          /\ cpu'.registers.SP = cpu.registers.SP + Signed(232))
              ELSE cpu'.halted /\ cpu'.calls = <<118>>]_vars

\* the halt bug has run ADD SP,r8 with its own opcode byte as the operand
C10_Witness ==
    /\ cpu.calls = <<118, 232>>
    /\ ~cpu.halted
    /\ cpu.registers.PC = 2
    /\ cpu.registers.SP = Signed(232)

(***************************************************************************)
(* The memory specification: a client (the CPU's handlers, a loader, a      *)
(* debugger) calls read and write on the Memory object of a newly           *)
(* constructed CPU, with addresses from every range of the memory map.      *)
(***************************************************************************)
\* byte patterns of the loaded ROM images; their length is odd, so that the
\* same offset in different 16 KiB banks holds different bytes
RomPatterns == {<<17, 34, 51>>, <<195, 80, 1>>}

\* 0000 2000 4000 6000 7FFF 8000 A000 C000 DDFF E000 FDFF FE00 FF0F FF80 FFFF
MemAddresses ==
    {0, 8192, 16384, 24576, 32767, 32768, 40960, 49152, 56831, 57344, 65023,
     65024, 65295, 65408, 65535}

\* 0x00, 0xFF and 0x10A (0x0A once masked to a byte)
MemValues == {0, 255, 266}

MemInit ==
    /\ \E image \in RomPatterns : cpu = CPUNew(image)
    /\ access = NoAccess

\* memory.write(address, value)
MemoryWrite ==
    \E address \in MemAddresses, value \in MemValues :
        /\ access.seq < MaxAccesses
        /\ cpu' = [cpu EXCEPT !.memory = write(@, address, value)]
        /\ access' = [op |-> "write", address |-> address, value |-> value,
                      seq |-> access.seq + 1]

\* memory.read(address); access.value is the byte returned
MemoryRead ==
    \E address \in MemAddresses :
        /\ access.seq < MaxAccesses
        /\ access' = [op |-> "read", address |-> address,
                      value |-> read(cpu.memory, address), seq |-> access.seq + 1]
        /\ UNCHANGED cpu

MemNext == MemoryWrite \/ MemoryRead

MemSpec == MemInit /\ [][MemNext]_vars

\* C11: once STOP has set stopped, the CPU stays stopped; no later transition
\* changes t_clock, a register, a flag, IME or memory, and a step() call made
\* while stopped steps no peripheral, makes no bus access and leaves IE and IF
\* alone, whatever requests are pending
C11_StoppedForEver ==
    [][cpu.stopped =>
          /\ cpu'.stopped
          /\ cpu'.t_clock = cpu.t_clock
          /\ cpu'.registers = cpu.registers
          /\ cpu'.ime = cpu.ime
          /\ cpu'.enable_ime = cpu.enable_ime
          /\ cpu'.halted = cpu.halted
          /\ cpu'.memory = cpu.memory
          /\ (cpu'.path # cpu.path =>
                 /\ cpu'.path = "stopped"
                 /\ cpu'.bus = <<>>
                 /\ cpu'.stepped = <<>>
                 /\ cpu'.calls = <<>>
                 /\ cpu'.IE = cpu.IE
                 /\ cpu'.IF_ = cpu.IF_)]_vars

\* step() has returned at once on a stopped CPU with IME true and a request
\* pending
C11_Witness == cpu.path = "stopped" /\ cpu.stopped /\ cpu.ime /\ Pending(cpu)

\* the peripherals in the order one tick steps them
PeripheralOrder == <<"timer", "display", "sound", "serial", "joypad">>

\* the number of stepTimer calls in a bus log
RECURSIVE TickCount(_)
TickCount(bus) ==
    IF bus = <<>> THEN 0
    ELSE (IF Head(bus) = "tick" THEN 1 ELSE 0) + TickCount(Tail(bus))

\* C12: t_clock is always a multiple of 4 and never decreases; a transition
\* that advances it by 4n is a step() call that made exactly n ticks, each
\* stepping timer, display, sound, serial, joypad once in that order, and a
\* transition with no tick leaves t_clock alone
C12_TickBus ==
    [][LET n == (cpu'.t_clock - cpu.t_clock) \div 4
       IN  /\ cpu'.t_clock % 4 = 0
           /\ cpu'.t_clock >= cpu.t_clock
           /\ (cpu'.t_clock # cpu.t_clock \/ cpu'.stepped # cpu.stepped
                \/ cpu'.bus # cpu.bus =>
                  /\ TickCount(cpu'.bus) = n
                  /\ Len(cpu'.stepped) = 5 * n
                  /\ \A k \in 1..n :
                         SubSeq(cpu'.stepped, 5 * k - 4, 5 * k) = PeripheralOrder)]_vars

\* CALL nn has run: six ticks, thirty peripheral steps
C12_Witness ==
    /\ cpu.calls = <<205>>
    /\ cpu.t_clock = 24
    /\ Len(cpu.stepped) = 30

Writes(lo, hi) == access'.op = "write" /\ access'.address \in lo..hi

\* the transition is a call of read with an address in lo..hi
Reads(lo, hi) == access'.op = "read" /\ access'.address \in lo..hi

\* the byte a written value is stored as
Byte(v) == v % 256

\* byte i of the loaded ROM image
ImageByte(mem, i) == Low(RomGet(mem.externalRom, i), 255)

\* C14: after any writes to 0000-7FFF the ROM bank selector used for reads of
\* 4000-7FFF is in 1..127, never zero
C14_RomBankRange == cpu.memory.externalRomBank \in 1..127

\* C15: a write of v to 2000-3FFF makes the low 5 bits of the ROM bank
\* selector v & 0x1F, or 1 when that is 0, and leaves bits 5-6 unchanged
C15_BankLow ==
    [][Writes(8192, 16383) =>
          LET b == Byte(access'.value) % 32
          IN  /\ cpu'.memory.externalRomBank % 32 = (IF b = 0 THEN 1 ELSE b)
              /\ cpu'.memory.externalRomBank \div 32
                     = cpu.memory.externalRomBank \div 32]_vars

\* C16: a write of v to 6000-7FFF sets the mode to RAM if bit 0 of v is 1 and
\* to ROM otherwise; a write of v to 4000-5FFF in ROM mode sets bits 5-6 of
\* the ROM bank to v & 3 and leaves its low 5 bits and the RAM bank unchanged,
\* and in RAM mode sets the RAM bank to v & 3 and leaves the ROM bank unchanged
C16_ModeAndUpperBits ==
    [][LET v == Byte(access'.value)
           old == cpu.memory
           new == cpu'.memory
       IN  /\ (Writes(24576, 32767) =>
                  new.mbcMode = (IF v % 2 = 1 THEN "RAM" ELSE "ROM"))
           /\ (Writes(16384, 24575) /\ old.mbcMode = "ROM" =>
                  /\ new.externalRomBank \div 32 = v % 4
                  /\ new.externalRomBank % 32 = old.externalRomBank % 32
                  /\ new.externalRamBank = old.externalRamBank)
           /\ (Writes(16384, 24575) /\ old.mbcMode = "RAM" =>
                  /\ new.externalRamBank = v % 4
                  /\ new.externalRomBank = old.externalRomBank)]_vars

\* C17: with bank N selected, a read of addr in 4000-7FFF returns image byte
\* N*0x4000 + (addr - 0x4000), and a read of addr in 0000-3FFF (boot overlay
\* off or addr >= 0x100) returns image byte addr
C17_RomReads ==
    access.op = "read" =>
        LET mem == cpu.memory
            addr == access.address
        IN  /\ (addr \in 16384..32767 =>
                   access.value
                       = ImageByte(mem, mem.externalRomBank * 16384 + (addr - 16384)))
            /\ (addr \in 0..16383 /\ (~mem.hasBoot \/ addr >= 256) =>
                   access.value = ImageByte(mem, addr))

\* C18: a write of v to 0000-1FFF makes ram_enabled (v & 0x0F) = 0x0A and
\* keeps the stored bytes; while the RAM is disabled a read of A000-BFFF
\* returns 0xFF and a write to A000-BFFF changes nothing; the stored bytes
\* change only by a write to A000-BFFF made while enabled
C18_RamGate ==
    [][LET old == cpu.memory
           new == cpu'.memory
       IN  /\ (Writes(0, 8191) =>
                  /\ new.externalRamEnabled = (Byte(access'.value) % 16 = 10)
                  /\ new.externalRam = old.externalRam)
           /\ (Reads(40960, 49151) /\ ~old.externalRamEnabled =>
                  access'.value = 255)
           /\ (Writes(40960, 49151) /\ ~old.externalRamEnabled => new = old)
           /\ (new.externalRam # old.externalRam =>
                  Writes(40960, 49151) /\ old.externalRamEnabled)]_vars

\* a read of A000 has returned 0xFF because the RAM is disabled, while the
\* byte 0x0A stored there before is kept
C18_Witness ==
    /\ access.op = "read"
    /\ access.address = 40960
    /\ access.value = 255
    /\ ~cpu.memory.externalRamEnabled
    /\ ArrayGet(cpu.memory.externalRam, 0) = 10

\* the RAM ranges: video RAM, external RAM, work RAM, echo, OAM, high RAM
RamRanges ==
    (32768..40959) \cup (40960..49151) \cup (49152..57343) \cup (57344..65023)
        \cup (65024..65183) \cup (65408..65534)

\* C19: a read of a RAM address directly after a write of v to it (external
\* RAM being enabled) returns v & 0xFF; a write at E000+k is read back at
\* C000+k and a write at C000+k, k < 0x1E00, at E000+k
C19_ReadAfterWrite ==
    [][access.op = "write" /\ access'.op = "read" =>
          LET a == access.address
              r == access'.address
              usable == a \in RamRanges
                        /\ (a \in 40960..49151 => cpu.memory.externalRamEnabled)
          IN  /\ (usable /\ r = a => access'.value = Byte(access.value))
              /\ (a \in 57344..65023 /\ r = a - 8192 =>
                     access'.value = Byte(access.value))
              /\ (a \in 49152..56831 /\ r = a + 8192 =>
                     access'.value = Byte(access.value))]_vars

\* the byte 0x0A written at E000 has been read at C000
C19_Witness ==
    /\ access.op = "read"
    /\ access.address = 49152
    /\ access.value = 10
    /\ access.seq = 2

\* C20: read(0xFF0F) returns IF | 0xE0 and read(0xFFFF) returns IE, the full
\* byte last written to FFFF
C20_InterruptRegisterReads ==
    access.op = "read" =>
        /\ (access.address = 65295 => access.value = BitOr(cpu.memory.IF_, 224))
        /\ (access.address = 65535 => access.value = cpu.memory.IE)

(***************************************************************************)
(* The program specification: short programs that set SP with LD SP,nn and  *)
(* then use the stack, run with the registers holding distinct values.      *)
(* Every program ends in a JR loop, and a program's operands are read back  *)
(* from its image by the properties.                                        *)
(***************************************************************************)
\* stack pointers with the two bytes below them in work RAM or high RAM:
\* C002, D000, DFFF, E000, FFFE
StackPointers == {49154, 53248, 57343, 57344, 65534}

\* register values of a running program: F = 0xB0 has Z, H and C set
ProgramRegisters ==
    [A |-> 18, F |-> 176, B |-> 52, C |-> 95, D |-> 154, E |-> 255,
     H |-> 199, L |-> 15, PC |-> 0, SP |-> 0]

\* at e: LD SP,sp; CALL/CALL Z/CALL C e+8; JR -2; at e+8: RET/RET Z/RET C
CallPrograms ==
    { [image |-> <<49, sp % 256, sp \div 256, call, (e + 8) % 256, (e + 8) \div 256,
                   24, 254, ret, 0>>,
       entry |-> e] :
        sp \in StackPointers, call \in {205, 204, 220}, ret \in {201, 200, 216},
        e \in {0, 250, 32750} }

\* RETI at every interrupt vector; at 1: LD SP,sp; EI; JR -2
InterruptPrograms ==
    { [image |-> <<217, 49, sp % 256, sp \div 256, 251, 24, 254, 0>>, entry |-> 1] :
        sp \in StackPointers }

\* at 0: LD SP,sp; PUSH rr; POP qq; JR -2
PushPrograms ==
    { [image |-> <<49, sp % 256, sp \div 256, push, pop, 24, 254>>, entry |-> 0] :
        sp \in StackPointers, push \in {197, 213, 229, 245},
        pop \in {193, 209, 225, 241} }

ProgInit ==
    /\ \E pr \in CallPrograms \cup InterruptPrograms \cup PushPrograms :
           cpu = [CPUNew(pr.image) EXCEPT
                      !.registers = [ProgramRegisters EXCEPT !.PC = pr.entry]]
    /\ access = NoAccess

\* the embedder calls step()
ProgStep ==
    /\ ~cpu.overflow
    /\ cpu.t_clock < 4 * MaxProgTicks
    /\ cpu' = step(cpu)
    /\ UNCHANGED access

ProgNext == ProgStep \/ RequestInterrupt \/ OpEnableAll

ProgSpec == ProgInit /\ [][ProgNext]_vars

\* the image of the running program and the SP its LD SP,nn loads
Image == cpu.memory.externalRom

IsCallProgram == Len(Image) = 10

IsInterruptProgram == Len(Image) = 8

IsPushProgram == Len(Image) = 7

LoadedSP ==
    IF IsInterruptProgram THEN Image[3] + 256 * Image[4] ELSE Image[2] + 256 * Image[3]

\* the 16-bit word stored at addr, addr+1
Word(mem, addr) == read(mem, addr) + 256 * read(mem, addr + 1)

\* the step dispatches exactly the handler of one opcode of ops
Executes(ops) ==
    StepTaken /\ cpu'.path = "fetch" /\ Len(cpu'.calls) = 1 /\ cpu'.calls[1] \in ops

\* C24: a taken CALL nn at p stores the high byte of p+3 at SP-1 and the low
\* byte at SP-2, decreases SP by 2 and jumps to nn; a taken RET loads PC from
\* (SP), (SP+1) and increases SP by 2; so the RET after the CALL returns to
\* p+3 with SP as it was before the CALL
C24_CallReturn ==
    [][/\ (Executes({205, 204, 220}) =>
              LET pc == cpu.registers.PC
                  sp == cpu.registers.SP
              IN  /\ read(cpu'.memory, sp - 1) = (pc + 3) \div 256
                  /\ read(cpu'.memory, sp - 2) = (pc + 3) % 256
                  /\ cpu'.registers.SP = sp - 2
                  /\ cpu'.registers.PC = Word(cpu.memory, pc + 1))
       /\ (Executes({201, 200, 216}) =>
              /\ cpu'.registers.PC = Word(cpu.memory, cpu.registers.SP)
              /\ cpu'.registers.SP = cpu.registers.SP + 2)
       /\ (Executes({201, 200, 216}) /\ IsCallProgram =>
              /\ cpu'.registers.PC = Image[5] + 256 * Image[6] - 2
              /\ cpu'.registers.SP = LoadedSP)]_vars

\* CALL C at 0x00FD has been answered by RET Z: PC = 0x0100, SP = 0xFFFE again
C24_Witness ==
    /\ IsCallProgram
    /\ Image[4] = 220
    /\ cpu.calls = <<200>>
    /\ cpu.registers.PC = 256
    /\ cpu.registers.SP = 65534

\* C25: RETI sets IME in the step that executes it and loads PC from (SP),
\* (SP+1); the interrupt program is serviced at its loop address 5 only, and
\* the RETI at the vector resumes it at 5 with SP restored and IME true
C25_ReturnFromInterrupt ==
    [][/\ (Executes({217}) =>
              /\ cpu'.ime
              /\ cpu'.registers.PC = Word(cpu.memory, cpu.registers.SP)
              /\ cpu'.registers.SP = cpu.registers.SP + 2
              /\ cpu'.bus = <<"read", "tick", "read", "tick", "read", "tick", "tick">>)
       /\ (Services /\ IsInterruptProgram =>
              cpu.registers.PC = 5 /\ cpu.registers.SP = LoadedSP)
       /\ (Executes({217}) /\ IsInterruptProgram =>
              /\ cpu.path = "interrupt"
              /\ cpu'.registers.PC = 5
              /\ cpu'.registers.SP = LoadedSP)]_vars

\* the timer interrupt has been serviced and its RETI has resumed the loop
C25_Witness ==
    /\ IsInterruptProgram
    /\ cpu.calls = <<217>>
    /\ cpu.ime
    /\ cpu.registers.PC = 5
    /\ cpu.registers.SP = 65534
    /\ read(cpu.memory, 65532) = 5

\* C26: PUSH rr stores the high register at SP-1 and the low one at SP-2 and
\* decreases SP by 2; POP qq loads the low register from (SP), with the low
\* nibble cleared when it is F, and the high one from (SP+1) and increases SP
\* by 2; so POP qq after PUSH rr copies rr into qq and restores SP
C26_PushPop ==
    [][/\ (Executes({197, 213, 229, 245}) =>
              LET rr == StackPair(cpu'.calls[1])
                  sp == cpu.registers.SP
              IN  /\ read(cpu'.memory, sp - 1) = cpu.registers[rr[1]]
                  /\ read(cpu'.memory, sp - 2) = cpu.registers[rr[2]]
                  /\ cpu'.registers.SP = sp - 2)
       /\ (Executes({193, 209, 225, 241}) =>
              LET qq == StackPair(cpu'.calls[1])
                  sp == cpu.registers.SP
                  low == read(cpu.memory, sp)
              IN  /\ cpu'.registers[qq[2]] = (IF qq[2] = "F" THEN low - (low % 16) ELSE low)
                  /\ cpu'.registers[qq[1]] = read(cpu.memory, sp + 1)
                  /\ cpu'.registers.SP = sp + 2
                  /\ cpu'.registers.F % 16 = 0)
       /\ (Executes({193, 209, 225, 241}) /\ IsPushProgram =>
              LET qq == StackPair(cpu'.calls[1])
                  rr == StackPair(Image[4])
                  low == ProgramRegisters[rr[2]]
              IN  /\ cpu.calls = <<Image[4]>>
                  /\ cpu'.registers[qq[1]] = ProgramRegisters[rr[1]]
                  /\ cpu'.registers[qq[2]] = (IF qq[2] = "F" THEN low - (low % 16) ELSE low)
                  /\ cpu'.registers.SP = LoadedSP)]_vars

\* PUSH BC with C = 0x5F, then POP AF: A = B and F = 0x50
C26_Witness ==
    /\ IsPushProgram
    /\ cpu.calls = <<241>>
    /\ cpu.registers.A = 52
    /\ cpu.registers.F = 80
    /\ cpu.registers.SP = LoadedSP

(***************************************************************************)
(* The arithmetic specification: one 8-bit arithmetic instruction is        *)
(* executed on chosen values of A, of the operand and of the carry flag.    *)
(***************************************************************************)
\* ADD/ADC/SUB/SBC/CP A,d8
AluImmediate == {198, 206, 214, 222, 254}

\* ADD/ADC/SUB/SBC/CP A,r with r in B, C, D, E, H, L, (HL), A
AluRegister == (128..159) \cup (184..191)

\* operand values of the register forms
AluEdges == {0, 1, 15, 16, 127, 128, 136, 240, 255}

\* A = a, F = f, and the operand register of opcode holds v; HL addresses
\* the second byte of the image for the (HL) form
AluRegisters(opcode, a, v, f) ==
    [r \in Registers |->
        IF r = "A" THEN a
        ELSE IF r = "F" THEN f
        ELSE IF r \in {"PC", "SP"} THEN 0
        ELSE IF opcode \in AluRegister /\ opcode % 8 = 6
             THEN (IF r = "L" THEN 1 ELSE IF r = "H" THEN 0 ELSE v)
        ELSE v]

AluInit ==
    /\ \E opcode \in AluImmediate \cup AluRegister, a \in Bytes, f \in {0, 240} :
           \E v \in (IF opcode \in AluImmediate THEN Bytes ELSE AluEdges) :
               cpu = [CPUNew(<<opcode, v>>) EXCEPT
                          !.registers = AluRegisters(opcode, a, v, f)]
    /\ access = NoAccess

\* the embedder calls step() once
AluStep ==
    /\ cpu.t_clock = 0
    /\ cpu' = step(cpu)
    /\ UNCHANGED access

AluNext == AluStep

AluSpec == AluInit /\ [][AluNext]_vars

\* the operand of the arithmetic instruction opcode, before it executes
AluOperand(opcode) ==
    IF opcode \in AluImmediate THEN read(cpu.memory, cpu.registers.PC + 1)
    ELSE IF opcode % 8 = 6
         THEN read(cpu.memory, cpu.registers.H * 256 + cpu.registers.L)
    ELSE cpu.registers[<<"B", "C", "D", "E", "H", "L", "L", "A">>[(opcode % 8) + 1]]

\* the carry flag before the instruction, as 0 or 1
CarryIn == (cpu.registers.F \div 16) % 2

\* the upper nibble of F with the given Z, N, H, C
Flags(z, n, h, c) ==
    (IF z THEN 8 ELSE 0) + (IF n THEN 4 ELSE 0) + (IF h THEN 2 ELSE 0)
        + (IF c THEN 1 ELSE 0)

\* C27: ADD A,v (cin = 0) and ADC A,v (cin = C) leave A = (A + v + cin) mod 256,
\* Z = (result = 0), N = 0, H = ((A & 0xF) + (v & 0xF) + cin > 0xF) and
\* C = (A + v + cin > 0xFF)
C27_AddAdc ==
    [][Executes((128..143) \cup {198, 206}) =>
          LET opcode == cpu'.calls[1]
              a == cpu.registers.A
              v == AluOperand(opcode)
              cin == IF opcode \in (136..143) \cup {206} THEN CarryIn ELSE 0
              result == (a + v + cin) % 256
          IN  /\ cpu'.registers.A = result
              /\ cpu'.registers.F \div 16 =
                     Flags(result = 0, FALSE, (a % 16) + (v % 16) + cin > 15,
                           a + v + cin > 255)]_vars

\* ADD A,A has produced 0x10 with H and C set: A was 0x88
C27_Witness ==
    /\ cpu.calls = <<135>>
    /\ cpu.registers.A = 16
    /\ cpu.registers.F = 48

\* C28: SUB A,v (cin = 0) and SBC A,v (cin = C) leave A = (A - v - cin) mod 256,
\* Z = (result = 0), N = 1, H = ((v & 0xF) + cin > (A & 0xF)) and
\* C = (v + cin > A); CP v sets the flags of SUB v and leaves A unchanged
C28_SubSbcCp ==
    [][Executes((144..159) \cup (184..191) \cup {214, 222, 254}) =>
          LET opcode == cpu'.calls[1]
              a == cpu.registers.A
              v == AluOperand(opcode)
              cin == IF opcode \in (152..159) \cup {222} THEN CarryIn ELSE 0
              result == (a - v - cin) % 256
              compare == opcode \in (184..191) \cup {254}
          IN  /\ cpu'.registers.A = (IF compare THEN a ELSE result)
              /\ cpu'.registers.F \div 16 =
                     Flags(result = 0, TRUE, (v % 16) + cin > (a % 16), v + cin > a)]_vars

\* SBC A,0xFF with carry has produced 0 with every flag set: A was 0
C28_Witness ==
    /\ cpu.calls = <<222>>
    /\ Image[2] = 255
    /\ cpu.registers.A = 0
    /\ cpu.registers.F = 240

(***************************************************************************)
(* The stack-pointer arithmetic specification: ADD SP,r8 or LD HL,SP+r8 is  *)
(* executed on chosen values of SP, of the operand byte and of F.           *)
(***************************************************************************)
\* every SP of the top page, and boundary low bytes in the pages 0x00 and 0x7F
SpValues ==
    { 65280 + lo : lo \in Bytes } \cup { hi * 256 + lo : hi \in {0, 127}, lo \in AluEdges }

SpInit ==
    /\ \E opcode \in {232, 248}, sp \in SpValues, b \in Bytes, f \in {0, 240} :
           cpu = [CPUNew(<<opcode, b>>) EXCEPT
                      !.registers = [ProgramRegisters EXCEPT !.SP = sp, !.F = f]]
    /\ access = NoAccess

\* the embedder calls step() once
SpStep ==
    /\ cpu.t_clock = 0
    /\ cpu' = step(cpu)
    /\ UNCHANGED access

SpNext == SpStep

SpSpec == SpInit /\ [][SpNext]_vars

\* C29: with s the operand byte b read as two's complement, ADD SP,b and
\* LD HL,SP+b set Z = 0, N = 0, H = ((SP & 0xF) + (b & 0xF) > 0xF) and
\* C = ((SP & 0xFF) + b > 0xFF); ADD SP,b takes 4 machine cycles and leaves
\* SP = SP + s when that lies in 0..0xFFFF; LD HL,SP+b leaves
\* HL = (SP + s) mod 0x10000 and SP unchanged
C29_SignedOffset ==
    [][Executes({232, 248}) =>
          LET opcode == cpu'.calls[1]
              sp == cpu.registers.SP
              b == read(cpu.memory, cpu.registers.PC + 1)
              s == (b % 128) - (IF b >= 128 THEN 128 ELSE 0)
          IN  /\ cpu'.registers.F \div 16 =
                     Flags(FALSE, FALSE, (sp % 16) + (b % 16) > 15, (sp % 256) + b > 255)
              /\ opcode = 232 =>
                     /\ TickCount(cpu'.bus) = 4
                     /\ (sp + s \in 0..65535 => cpu'.registers.SP = sp + s)
              /\ opcode = 248 =>
                     /\ cpu'.registers.H * 256 + cpu'.registers.L = (sp + s) % 65536
                     /\ cpu'.registers.SP = sp]_vars

\* ADD SP,0x02 has produced SP = 0xFFFA with every flag clear: SP was 0xFFF8
C29_Witness ==
    /\ cpu.calls = <<232>>
    /\ Image[2] = 2
    /\ cpu.registers.SP = 65530
    /\ cpu.registers.F = 0

(***************************************************************************)
(* The decimal specification: LD A,a; SCF or OR A; ADD/ADC/SUB/SBC A,b;     *)
(* DAA; JR -2, for packed-BCD bytes a and b, run from power-on.             *)
(***************************************************************************)
\* step() is called only while fewer than MaxDaaTicks machine cycles have elapsed
MaxDaaTicks == 6

\* the packed-BCD byte of n in 0..99
BCD(n) == (n \div 10) * 16 + (n % 10)

\* the number a packed-BCD byte stands for
Decimal(byte) == (byte \div 16) * 10 + (byte % 16)

DaaPrograms ==
    { <<62, BCD(a), carry, arith, BCD(b), 39, 24, 254>> :
        a \in 0..99, b \in 0..99, carry \in {55, 183}, arith \in {198, 206, 214, 222} }

DaaInit ==
    /\ \E image \in DaaPrograms : cpu = CPUNew(image)
    /\ access = NoAccess

\* the embedder calls step()
DaaStep ==
    /\ cpu.t_clock < 4 * MaxDaaTicks
    /\ cpu' = step(cpu)
    /\ UNCHANGED access

DaaNext == DaaStep

DaaSpec == DaaInit /\ [][DaaNext]_vars

\* C30: when DAA has executed after ADD/ADC A,b on A = a, with the carry c the
\* addition took in, A is the packed BCD of (a + b + c) mod 100 and C is set
\* iff a + b + c >= 100; after SUB/SBC A,b, A is the packed BCD of
\* (a - b - c) mod 100; Z is set iff A = 0 and H is clear
C30_DecimalAdjust ==
    cpu.calls = <<39>> /\ Image \in DaaPrograms =>
        LET a == Decimal(Image[2])
            b == Decimal(Image[5])
            c == IF Image[3] = 55 /\ Image[4] \in {206, 222} THEN 1 ELSE 0
            F == cpu.registers.F
        IN  /\ Image[4] \in {198, 206} =>
                  /\ cpu.registers.A = BCD((a + b + c) % 100)
                  /\ (F \div 16) % 2 = (IF a + b + c >= 100 THEN 1 ELSE 0)
            /\ Image[4] \in {214, 222} =>
                  cpu.registers.A = BCD((a - b - c) % 100)
            /\ F \div 128 = (IF cpu.registers.A = 0 THEN 1 ELSE 0)
            /\ (F \div 32) % 2 = 0

\* 99 + 00 + carry: DAA has left A = 0x00 with Z and C set
C30_Witness ==
    /\ Image = <<62, 153, 55, 206, 0, 39, 24, 254>>
    /\ cpu.calls = <<39>>
    /\ cpu.registers.A = 0
    /\ cpu.registers.F = 144

(***************************************************************************)
(* The bit-operation specification: 0xCB x is executed for every second     *)
(* byte x, with the target of x holding a chosen value; HL addresses the    *)
(* first byte of work RAM, which holds that value too.                      *)
(***************************************************************************)
\* the registers before 0xCB x: the target register of x holds v
CbRegisters(x, v, f) ==
    [r \in Registers |->
        IF r = "F" THEN f
        ELSE IF r \in {"PC", "SP"} THEN 0
        ELSE IF x % 8 = 6 THEN (IF r = "H" THEN 192 ELSE IF r = "L" THEN 0
                                ELSE ProgramRegisters[r])
        ELSE IF r = Target(x % 8) THEN v
        ELSE ProgramRegisters[r]]

CbInit ==
    /\ \E x \in Bytes, v \in Bytes, f \in {0, 240} :
           cpu = [CPUNew(<<203, x>>) EXCEPT
                      !.registers = CbRegisters(x, v, f),
                      !.memory = write(@, 49152, v)]
    /\ access = NoAccess

\* the embedder calls step() once
CbStep ==
    /\ cpu.t_clock = 0
    /\ cpu' = step(cpu)
    /\ UNCHANGED access

CbNext == CbStep

CbSpec == CbInit /\ [][CbNext]_vars

\* the value of target number t (B, C, D, E, H, L, (HL), A) in machine m
TargetValue(m, t) ==
    IF t = 6 THEN read(m.memory, m.registers.H * 256 + m.registers.L)
    ELSE m.registers[<<"B", "C", "D", "E", "H", "L", "L", "A">>[t + 1]]

\* the step changes nothing but PC, the clock, the flags and target t,
\* which becomes value
OnlyTarget(t, value) ==
    /\ TargetValue(cpu', t) = value
    /\ \A r \in {"A", "B", "C", "D", "E", "H", "L", "SP"} :
           (t = 6 \/ r # <<"B", "C", "D", "E", "H", "L", "L", "A">>[t + 1])
               => cpu'.registers[r] = cpu.registers[r]
    /\ cpu'.registers.PC = cpu.registers.PC + 2
    /\ cpu'.memory =
           (IF t = 6 /\ value # TargetValue(cpu, t)
            THEN write(cpu.memory, cpu.registers.H * 256 + cpu.registers.L, value)
            ELSE cpu.memory)

\* C31: after 0xCB, the second byte x selects the operation by x >> 3 and
\* the target by x & 7. BIT b,t changes no register and no memory byte,
\* keeps C and sets Z = (bit b of t is 0), N = 0, H = 1; RES b,t and SET b,t
\* clear and set bit b of the target only and change no flag; SWAP exchanges
\* the nibbles of the target with Z from the result and N = H = C = 0; the
\* step takes 2 machine cycles, plus one per memory access of a (HL) target
C31_BitOperations ==
    [][Executes({203}) =>
          LET x == read(cpu.memory, cpu.registers.PC + 1)
              t == x % 8
              b == (x \div 8) % 8
              v == TargetValue(cpu, t)
              bitSet == (v \div (2 ^ b)) % 2 = 1
              ticks == TickCount(cpu'.bus)
          IN  /\ x \in 64..127 =>
                    /\ OnlyTarget(t, v)
                    /\ cpu'.registers.F \div 16 = Flags(~bitSet, FALSE, TRUE, CarryIn = 1)
                    /\ ticks = (IF t = 6 THEN 3 ELSE 2)
              /\ x \in 128..191 =>
                    /\ OnlyTarget(t, IF bitSet THEN v - (2 ^ b) ELSE v)
                    /\ cpu'.registers.F = cpu.registers.F
                    /\ ticks = (IF t = 6 THEN 4 ELSE 2)
              /\ x \in 192..255 =>
                    /\ OnlyTarget(t, IF bitSet THEN v ELSE v + (2 ^ b))
                    /\ cpu'.registers.F = cpu.registers.F
                    /\ ticks = (IF t = 6 THEN 4 ELSE 2)
              /\ x \in 48..55 =>
                    /\ OnlyTarget(t, (v % 16) * 16 + (v \div 16))
                    /\ cpu'.registers.F \div 16 = Flags(v = 0, FALSE, FALSE, FALSE)
                    /\ ticks = (IF t = 6 THEN 4 ELSE 2)]_vars

\* SWAP (HL) has turned the byte 0xAB of work RAM into 0xBA in 4 machine cycles
C31_Witness ==
    /\ cpu.calls = <<203>>
    /\ Image = <<203, 54>>
    /\ read(cpu.memory, 49152) = 186
    /\ cpu.registers.F = 0
    /\ TickCount(cpu.bus) = 4

\* the opcodes the dispatch table maps to IDK
InvalidOpcodes == {211, 219, 221, 227, 228, 235, 236, 237, 244, 252, 253}

\* the step fetched one byte and changed nothing but PC, the clock, the step
\* log and the interrupt master enable with its latch
Quiescent(fetched, ticks) ==
    /\ ~cpu'.overflow
    /\ cpu'.registers = [cpu.registers EXCEPT !.PC = @ + fetched]
    /\ cpu'.t_clock = cpu.t_clock + 4 * ticks
    /\ cpu'.IE = cpu.IE
    /\ cpu'.IF_ = cpu.IF_
    /\ cpu'.memory = cpu.memory
    /\ ~cpu'.stopped

\* the step dispatches HALT, which dispatches the opcode after it
HaltBugExecutes(ops) ==
    /\ StepTaken
    /\ cpu'.path = "fetch"
    /\ Len(cpu'.calls) = 2
    /\ cpu'.calls[1] = 118
    /\ cpu'.calls[2] \in ops

\* C32 as stated: a step that executes an invalid opcode leaves A, B, C, D,
\* E, H, L, F, SP, IME, IE, IF and every memory byte unchanged; PC advances
\* by one and the clock by one machine cycle
C32_InvalidUnchanged ==
    [][/\ (Executes(InvalidOpcodes) => Quiescent(1, 1) /\ cpu'.ime = cpu.ime)
       /\ (HaltBugExecutes(InvalidOpcodes) => Quiescent(1, 2) /\ cpu'.ime = cpu.ime)]_vars

\* C32, amended: a step that executes an invalid opcode leaves A, B, C, D, E,
\* H, L, F, SP, IE, IF and every memory byte unchanged, and PC advances by
\* one; IME changes only when the previous instruction was EI, whose delayed
\* enable takes effect in this step
C32_InvalidQuiescent ==
    [][/\ (Executes(InvalidOpcodes) =>
              /\ Quiescent(1, 1)
              /\ cpu'.ime = (cpu.ime \/ cpu.enable_ime)
              /\ ~cpu'.enable_ime)
       /\ (HaltBugExecutes(InvalidOpcodes) =>
              /\ Quiescent(1, 2)
              /\ cpu'.ime = cpu.ime)]_vars

\* EI; 0xD3: the step that executed 0xD3 has set IME
C32_Witness ==
    /\ Image = <<251, 211>>
    /\ cpu.calls = <<211>>
    /\ cpu.registers.PC = 2
    /\ cpu.ime
    /\ ~cpu.enable_ime

(***************************************************************************)
(* The latch specification: from power-on, h; EI; m; JR -2 with the same    *)
(* code at every interrupt vector, so h is the first instruction of every   *)
(* handler; requests and the enable register change between steps.          *)
(***************************************************************************)
\* step() is called only while fewer than MaxLatchTicks machine cycles have elapsed
MaxLatchTicks == 10

\* h is NOP or DI, m is NOP or EI
LatchPrograms ==
    { <<h, 251, m, 24, 254, 0, 0, 0>> : h \in {0, 243}, m \in {0, 251} }

LatchInit ==
    /\ \E image \in LatchPrograms : cpu = CPUNew(image)
    /\ access = NoAccess

\* the embedder calls step()
LatchStep ==
    /\ ~cpu.overflow
    /\ cpu.t_clock < 4 * MaxLatchTicks
    /\ cpu' = step(cpu)
    /\ UNCHANGED access

LatchNext == LatchStep \/ RequestInterrupt \/ OpEnableAll

LatchSpec == LatchInit /\ [][LatchNext]_vars

\* C33: after a step that services an interrupt, a step that executes an
\* instruction other than EI and RETI leaves IME false
C33_MaskedInHandler ==
    [][cpu.path = "interrupt" /\ StepTaken /\ cpu'.path = "fetch"
           /\ cpu'.calls[1] \notin {251, 217}
          => ~cpu'.ime]_vars

\* C34: a write to an OAM address (FE00-FE9F) changes the value read at no
\* video RAM address (8000-9FFF), and a write to a video RAM address changes
\* the value read at no OAM address
C34_RegionsIsolated ==
    [][/\ (Writes(65024, 65183) =>
              \A a \in MemAddresses \cap (32768..40959) :
                  read(cpu'.memory, a) = read(cpu.memory, a))
       /\ (Writes(32768, 40959) =>
              \A a \in MemAddresses \cap (65024..65183) :
                  read(cpu'.memory, a) = read(cpu.memory, a))]_vars

\* C21: the boot overlay is on from power-on until the first write to FF50
\* (an address no client of this specification writes to), so every read of
\* an address in 0000-00FF returns the boot-ROM byte at that address
C21_BootOverlay ==
    access.op = "read" /\ access.address \in 0..255 /\ 65360 \notin MemAddresses =>
        access.value = BootRom[access.address + 1]

\* C22: halted and stopped are never both true; halted becomes true only in a
\* step that executes HALT off the halt-bug path, becomes false only in a step
\* that starts with IE & IF != 0, and stopped becomes true only in a step that
\* executes STOP
C22_RunState ==
    [][/\ ~(cpu'.halted /\ cpu'.stopped)
       /\ (cpu'.halted /\ ~cpu.halted =>
              /\ cpu'.path = "fetch"
              /\ cpu'.calls = <<118>>
              /\ (cpu.ime \/ cpu.enable_ime \/ ~Pending(cpu)))
       /\ (~cpu'.halted /\ cpu.halted => StepTaken /\ Pending(cpu))
       /\ (cpu'.stopped /\ ~cpu.stopped =>
              /\ cpu'.path = "fetch"
              /\ cpu'.calls # <<>>
              /\ cpu'.calls[Len(cpu'.calls)] = 16)]_vars

\* HALT at 0 has halted the CPU, a request has woken it with IME false, and
\* the STOP at 1 has then stopped it
C22_Witness ==
    /\ cpu.memory.externalRom = <<118, 16>>
    /\ cpu.calls = <<16>>
    /\ cpu.registers.PC = 2
    /\ cpu.stopped
    /\ ~cpu.halted

\* C23: ticks of a step that executes one control-transfer instruction:
\* JP cc,nn 4 taken / 3 not, JP (HL) 1, JR cc 3 / 2, CALL cc 6 / 3, RET and
\* RETI 4, RET cc 5 / 2, RST 4; a conditional not taken leaves PC at the next
\* instruction and SP and memory unchanged
C23_ControlTicks ==
    [][StepTaken /\ cpu'.path = "fetch" /\ Len(cpu'.calls) = 1 =>
          LET op == cpu'.calls[1]
              n == TickCount(cpu'.bus)
              f == cpu.registers.F
              cc == (op \div 8) % 4
              holds == CASE cc = 0 -> (f \div 128) % 2 = 0
                         [] cc = 1 -> (f \div 128) % 2 = 1
                         [] cc = 2 -> (f \div 16) % 2 = 0
                         [] OTHER -> (f \div 16) % 2 = 1
              NotTaken(len) ==
                  /\ cpu'.registers.PC = (cpu.registers.PC + len) % 65536
                  /\ cpu'.registers.SP = cpu.registers.SP
                  /\ cpu'.memory = cpu.memory
          IN  /\ (op \in {194, 202, 210, 218} =>
                     IF holds THEN n = 4 ELSE n = 3 /\ NotTaken(3))
              /\ (op = 195 => n = 4)
              /\ (op = 233 => n = 1)
              /\ (op = 24 => n = 3)
              /\ (op \in {32, 40, 48, 56} =>
                     IF holds THEN n = 3 ELSE n = 2 /\ NotTaken(2))
              /\ (op \in {196, 204, 212, 220} =>
                     IF holds THEN n = 6 ELSE n = 3 /\ NotTaken(3))
              /\ (op = 205 => n = 6)
              /\ (op \in {201, 217} => n = 4)
              /\ (op \in {192, 200, 208, 216} =>
                     IF holds THEN n = 5 ELSE n = 2 /\ NotTaken(1))
              /\ (op \in {199, 207, 215, 223, 231, 239, 247, 255} => n = 4)]_vars

\* SCF at 0 has set the carry and RET C at 1 has been taken
C23_Witness ==
    /\ cpu.memory.externalRom = <<55, 216>>
    /\ cpu.calls = <<216>>
    /\ TickCount(cpu.bus) = 5

====
